---- MODULE Spec2Model ----
(***************************************************************************)
(* The bank-account record store of version2.c (slot store, initialisation *)
(* and its tests) and version3.c (validation and the CRUD operations).     *)
(*                                                                         *)
(* The backing file "accounts.dat" is a sequence of whole records: every   *)
(* write of the programs is one RECORD_SIZE block at a multiple of         *)
(* RECORD_SIZE, so the file length is always a whole number of records.    *)
(* slots[i+1] is the record at slot index i.  Balances are in cents.       *)
(* Names are sequences of one-character strings.                           *)
(***************************************************************************)
EXTENDS Integers, Sequences, FiniteSets, TLC

\* ------------------------------------------------------------------ constants

MAX_ACCOUNTS == 100
MIN_ACCOUNT_NUM == 1
MAX_ACCOUNT_NUM == 100
LAST_NAME_SIZE == 15
FIRST_NAME_SIZE == 10

\* Bounds of the model: the largest balance and overdraft (in cents) an update
\* is followed to.
MaxBalance == 15000
MaxOverdraft == 5000

\* ------------------------------------------------------------------ records

client_data(acct_num, last_name, first_name, balance) ==
    [acct_num |-> acct_num, last_name |-> last_name,
     first_name |-> first_name, balance |-> balance]

\* struct client_data empty_client = {0, "", "", 0.0}: also what a block of
\* zero bytes (a hole of the file) decodes to.
empty_client == client_data(0, <<>>, <<>>, 0)

\* isalpha in the "C" locale.
Letters ==
    {"A","B","C","D","E","F","G","H","I","J","K","L","M","N","O","P","Q","R",
     "S","T","U","V","W","X","Y","Z","a","b","c","d","e","f","g","h","i","j",
     "k","l","m","n","o","p","q","r","s","t","u","v","w","x","y","z"}

\* A variant that takes digits too (isalnum).
isalnum(c) == c \in Letters \cup {"0","1","2","3","4","5","6","7","8","9"}

isalpha(c) == c \in Letters

\* A variant that copies up to size characters and leaves no room for the
\* terminator.
strncpy_unterminated(src, size) ==
    IF Len(src) <= size THEN src ELSE SubSeq(src, 1, size)

\* strncpy(dst, src, size - 1); dst[size - 1] = '\0'
strncpy_terminated(src, size) ==
    IF Len(src) <= size - 1 THEN src ELSE SubSeq(src, 1, size - 1)

initialize_client(acct_num, last_name, first_name, balance) ==
    client_data(acct_num,
                strncpy_terminated(last_name, LAST_NAME_SIZE),
                strncpy_terminated(first_name, FIRST_NAME_SIZE),
                balance)

\* ------------------------------------------------------------------ the file

\* The file system's view of accounts.dat.
NoFile == [exists |-> FALSE, slots |-> <<>>]

\* fopen(DATA_FILE, mode): "rb" and "rb+" need the file; "wb" and "wb+" create
\* it or truncate it to length zero.
fopen_ok(f, mode) == mode \in {"wb", "wb+"} \/ f.exists

fopen_file(f, mode) ==
    IF mode \in {"wb", "wb+"} THEN [exists |-> TRUE, slots |-> <<>>] ELSE f

\* fseek to position * RECORD_SIZE, then fwrite of one record: a write past the
\* end of the file extends it, the gap reading back as zero bytes.
Zeros(n) == [i \in 1..n |-> empty_client]

\* A variant that writes sizeof(client), the size of the pointer, instead of
\* RECORD_SIZE: the id and the first four characters of the last name.
fwrite_at_pointer_size(slots, position, client) ==
    LET old == IF position < Len(slots) THEN slots[position + 1] ELSE empty_client
        short == [old EXCEPT !.acct_num = client.acct_num,
                             !.last_name = SubSeq(client.last_name, 1,
                                 IF Len(client.last_name) < 4
                                 THEN Len(client.last_name) ELSE 4)]
    IN IF position < Len(slots)
       THEN [slots EXCEPT ![position + 1] = short]
       ELSE Append(slots \o Zeros(position - Len(slots)), short)

\* A variant that does not seek: past the end of the file the record is
\* appended where the file ends.
fwrite_at_appending(slots, position, client) ==
    IF position < Len(slots)
    THEN [slots EXCEPT ![position + 1] = client]
    ELSE Append(slots, client)

fwrite_at(slots, position, client) ==
    IF position < Len(slots)
    THEN [slots EXCEPT ![position + 1] = client]
    ELSE Append(slots \o Zeros(position - Len(slots)), client)

\* A variant whose range check lets position MAX_ACCOUNTS through.
write_client_to_file_inclusive(f, client, position, wfail) ==
    IF position < 0 \/ position > MAX_ACCOUNTS
    THEN [ok |-> FALSE, file |-> f]
    ELSE IF wfail
         THEN [ok |-> FALSE, file |-> f]
         ELSE [ok |-> TRUE,
               file |-> [f EXCEPT !.slots = fwrite_at(f.slots, position, client)]]

\* write_client_to_file: [ok, file]. wfail is fwrite reporting fewer than one
\* record written (the file is then left as it was).
write_client_to_file(f, client, position, wfail) ==
    IF position < 0 \/ position >= MAX_ACCOUNTS
    THEN [ok |-> FALSE, file |-> f]
    ELSE IF wfail
         THEN [ok |-> FALSE, file |-> f]
         ELSE [ok |-> TRUE,
               file |-> [f EXCEPT !.slots = fwrite_at(f.slots, position, client)]]

\* read_client_from_file of version3.c: [ok, client]. On a short read the
\* caller's struct is left as it was: uninitialised.
Uninitialised == client_data(0, <<"?">>, <<"?">>, 0)

read_client_from_file(f, position) ==
    IF position < 0 \/ position >= MAX_ACCOUNTS
    THEN [ok |-> FALSE, client |-> Uninitialised]
    ELSE IF position < Len(f.slots)
         THEN [ok |-> TRUE, client |-> f.slots[position + 1]]
         ELSE [ok |-> FALSE, client |-> Uninitialised]

\* read_client_from_file of version2.c: a short read zeroes the struct.
v2_read_client_from_file(f, position) ==
    IF position < 0 \/ position >= MAX_ACCOUNTS
    THEN [ok |-> FALSE, client |-> Uninitialised]
    ELSE IF position < Len(f.slots)
         THEN [ok |-> TRUE, client |-> f.slots[position + 1]]
         ELSE [ok |-> FALSE, client |-> empty_client]

\* ------------------------------------------------------------------ validation

\* A variant with the upper limit excluded.
validate_account_number_exclusive(acct_num) ==
    acct_num >= MIN_ACCOUNT_NUM /\ acct_num < MAX_ACCOUNT_NUM

\* A variant without the lower limit.
validate_account_number_upper_only(acct_num) == acct_num <= MAX_ACCOUNT_NUM

validate_account_number(acct_num) ==
    acct_num >= MIN_ACCOUNT_NUM /\ acct_num <= MAX_ACCOUNT_NUM

\* A variant that only rejects the empty name.
validate_name_nonempty(name) == Len(name) # 0

\* A variant that looks at the first character only.
validate_name_first_char(name) ==
    /\ Len(name) # 0
    /\ isalpha(name[1]) \/ name[1] = " " \/ name[1] = "-" \/ name[1] = "'"

\* A variant that takes letters and spaces only.
validate_name_letters_spaces(name) ==
    /\ Len(name) # 0
    /\ \A i \in 1..Len(name) : isalpha(name[i]) \/ name[i] = " "

validate_name(name) ==
    /\ Len(name) # 0
    /\ \A i \in 1..Len(name) :
          isalpha(name[i]) \/ name[i] = " " \/ name[i] = "-" \/ name[i] = "'"

\* validate_name handed a pointer: p.null is whether it is NULL, p.chars the
\* string it points to.
validate_name_or_null(p) == IF p.null THEN FALSE ELSE validate_name(p.chars)

\* ------------------------------------------------------------------ input

\* What scanf delivers: ok is whether one item was converted, val the item.
Scan(ok, val) == [ok |-> ok, val |-> val]
NoNumber == Scan(FALSE, 0)
NoChar == Scan(FALSE, "")
NoLine == <<>>

\* The account numbers, amounts, menu choices, confirmations and lines typed
\* at the prompts the model follows.
AcctInputs == {NoNumber} \cup {Scan(TRUE, n) : n \in {0, 1, 100, 101}}
AmountInputs == {NoNumber} \cup {Scan(TRUE, n) : n \in {-15000, 5000, 10000}}
ChoiceInputs == {NoNumber} \cup {Scan(TRUE, n) : n \in {1, 2, 3, 4}}
ConfirmInputs == {NoChar} \cup {Scan(TRUE, c) : c \in {"y", "Y", "n"}}
LastInputs == {<<"D","o","e">>, <<" ","O","'","R","-","e"," ">>, <<>>, <<"D","0","e">>}
FirstInputs == {<<"J","a","n","e">>, <<" "," ">>}

get_account_number(in) ==
    IF ~in.ok THEN 0
    ELSE IF ~validate_account_number(in.val) THEN 0
    ELSE in.val

get_balance_input(in) == IF ~in.ok THEN 0 ELSE in.val

isspace(c) == c = " "

RECURSIVE SkipSpaces(_)
SkipSpaces(s) ==
    IF Len(s) > 0 /\ isspace(Head(s)) THEN SkipSpaces(Tail(s)) ELSE s

RECURSIVE DropTrailingSpaces(_)
DropTrailingSpaces(s) ==
    IF Len(s) > 1 /\ isspace(s[Len(s)])
    THEN DropTrailingSpaces(SubSeq(s, 1, Len(s) - 1))
    ELSE s

\* get_name_input: fgets takes at most max_length - 1 characters of the line,
\* then leading and trailing spaces are trimmed.
get_name_input(line, max_length) ==
    LET buffer == IF Len(line) <= max_length - 1 THEN line
                  ELSE SubSeq(line, 1, max_length - 1)
    IN DropTrailingSpaces(SkipSpaces(buffer))

\* ------------------------------------------------------------------ CRUD

\* What one call of a CRUD function did: the file it leaves, its return value,
\* the stdio calls it made on accounts.dat in order, the prompts it issued in
\* order, the record it displayed or wrote, and whether it printed the
\* non-zero-balance warning.
Result(f, ret, io, prompts, client, warned) ==
    [file |-> f, ret |-> ret, io |-> io, prompts |-> prompts,
     client |-> client, warned |-> warned]

Range(s) == {s[i] : i \in 1..Len(s)}

\* A variant that reads the slot at acct_num instead of acct_num - 1.
account_exists_tail_next_slot(f, acct_num) ==
    IF ~fopen_ok(f, "rb") THEN [ret |-> 0, io |-> <<"open_failed">>]
    ELSE LET position == acct_num
             r == read_client_from_file(f, position)
         IN [ret |-> IF r.ok /\ r.client.acct_num # 0 THEN 1 ELSE 0,
             io |-> <<"open", "read", "close">>]

\* A variant that takes every record read for an account, id 0 included.
account_exists_tail_any_record(f, acct_num) ==
    IF ~fopen_ok(f, "rb") THEN [ret |-> 0, io |-> <<"open_failed">>]
    ELSE LET position == acct_num - 1
             r == read_client_from_file(f, position)
         IN [ret |-> IF r.ok THEN 1 ELSE 0,
             io |-> <<"open", "read", "close">>]

\* account_exists from the open on: [ret, io].
account_exists_tail(f, acct_num) ==
    IF ~fopen_ok(f, "rb") THEN [ret |-> 0, io |-> <<"open_failed">>]
    ELSE LET position == acct_num - 1
             r == read_client_from_file(f, position)
         IN [ret |-> IF r.ok /\ r.client.acct_num # 0 THEN 1 ELSE 0,
             io |-> <<"open", "read", "close">>]

account_exists(f, acct_num) ==
    IF ~validate_account_number(acct_num) THEN [ret |-> 0, io |-> <<>>]
    ELSE account_exists_tail(f, acct_num)

\* A variant that writes at acct_num instead of acct_num - 1.
create_account_tail_next_slot(f, acct_num, new_client, io, prompts, wfail) ==
    IF ~fopen_ok(f, "rb+")
    THEN Result(f, 0, io \o <<"open_failed">>, prompts, new_client, FALSE)
    ELSE LET position == acct_num
             w == write_client_to_file(f, new_client, position, wfail)
         IN Result(w.file, IF w.ok THEN 1 ELSE 0,
                   io \o <<"open", "write", "close">>, prompts, new_client, FALSE)

\* create_account from the open for writing on.
create_account_tail(f, acct_num, new_client, io, prompts, wfail) ==
    IF ~fopen_ok(f, "rb+")
    THEN Result(f, 0, io \o <<"open_failed">>, prompts, new_client, FALSE)
    ELSE LET position == acct_num - 1
             w == write_client_to_file(f, new_client, position, wfail)
         IN Result(w.file, IF w.ok THEN 1 ELSE 0,
                   io \o <<"open", "write", "close">>, prompts, new_client, FALSE)

create_account(f, in) ==
    LET acct_num == get_account_number(in.acct)
        ex == account_exists(f, acct_num)
        last_name == get_name_input(in.lname, LAST_NAME_SIZE)
        first_name == get_name_input(in.fname, FIRST_NAME_SIZE)
        initial_balance == get_balance_input(in.amount)
        asked == <<"acct", "lname", "fname", "amount">>
    IN IF acct_num = 0
       THEN Result(f, 0, <<>>, <<"acct">>, empty_client, FALSE)
       ELSE IF ex.ret # 0
       THEN Result(f, 0, ex.io, <<"acct">>, empty_client, FALSE)
       ELSE IF ~validate_name(last_name) \/ ~validate_name(first_name)
       THEN Result(f, 0, ex.io, asked, empty_client, FALSE)
       ELSE create_account_tail(f, acct_num,
                initialize_client(acct_num, last_name, first_name, initial_balance),
                ex.io, asked, in.wfail)

\* A variant that takes every record read for an account, id 0 included.
read_account_any_record(f, in) ==
    LET acct_num == get_account_number(in.acct)
        position == acct_num - 1
        r == read_client_from_file(f, position)
    IN IF acct_num = 0
       THEN Result(f, 0, <<>>, <<"acct">>, empty_client, FALSE)
       ELSE IF ~fopen_ok(f, "rb")
       THEN Result(f, 0, <<"open_failed">>, <<"acct">>, empty_client, FALSE)
       ELSE IF r.ok
       THEN Result(f, 1, <<"open", "read", "close">>, <<"acct">>, r.client, FALSE)
       ELSE Result(f, 0, <<"open", "read", "close">>, <<"acct">>, empty_client, FALSE)

read_account(f, in) ==
    LET acct_num == get_account_number(in.acct)
        position == acct_num - 1
        r == read_client_from_file(f, position)
    IN IF acct_num = 0
       THEN Result(f, 0, <<>>, <<"acct">>, empty_client, FALSE)
       ELSE IF ~fopen_ok(f, "rb")
       THEN Result(f, 0, <<"open_failed">>, <<"acct">>, empty_client, FALSE)
       ELSE IF r.ok /\ r.client.acct_num # 0
       THEN Result(f, 1, <<"open", "read", "close">>, <<"acct">>, r.client, FALSE)
       ELSE Result(f, 0, <<"open", "read", "close">>, <<"acct">>, empty_client, FALSE)

\* A variant that returns after the write without closing the file.
update_account_write_unclosed(f, client, position, prompts, wfail) ==
    LET w == write_client_to_file(f, client, position, wfail)
    IN Result(w.file, IF w.ok THEN 1 ELSE 0,
              <<"open", "read", "write">>, prompts, client, FALSE)

\* A variant that reports success whatever the write returned.
update_account_write_unchecked(f, client, position, prompts, wfail) ==
    LET w == write_client_to_file(f, client, position, wfail)
    IN Result(w.file, 1,
              <<"open", "read", "write", "close">>, prompts, client, FALSE)

\* The write-back of update_account and its report.
update_account_write(f, client, position, prompts, wfail) ==
    LET w == write_client_to_file(f, client, position, wfail)
    IN Result(w.file, IF w.ok THEN 1 ELSE 0,
              <<"open", "read", "write", "close">>, prompts, client, FALSE)

\* A variant that stores the amount as the balance.
update_balance_overwrite(client, transaction) ==
    [client EXCEPT !.balance = transaction]

\* case 1: client.balance += transaction
update_balance(client, transaction) ==
    [client EXCEPT !.balance = client.balance + transaction]

\* case 2: the names are read into the record
update_names(client, last_name, first_name) ==
    [client EXCEPT !.last_name = last_name, !.first_name = first_name]

\* case 3: the names and the balance are read into the record
update_all(client, last_name, first_name, balance) ==
    [client EXCEPT !.last_name = last_name, !.first_name = first_name,
                   !.balance = balance]

\* update_account once the account is found: the menu, the change, the write.
update_account_menu(f, client, position, in) ==
    LET io_abort == <<"open", "read", "close">>
        transaction == get_balance_input(in.amount)
        last_name == get_name_input(in.lname, LAST_NAME_SIZE)
        first_name == get_name_input(in.fname, FIRST_NAME_SIZE)
        names_ok == validate_name(last_name) /\ validate_name(first_name)
    IN IF ~in.choice.ok
       THEN Result(f, 0, io_abort, <<"acct", "choice">>, client, FALSE)
       ELSE CASE in.choice.val = 1 ->
                   update_account_write(f, update_balance(client, transaction),
                       position, <<"acct", "choice", "amount">>, in.wfail)
              [] in.choice.val = 2 ->
                   IF ~names_ok
                   THEN Result(f, 0, io_abort,
                               <<"acct", "choice", "lname", "fname">>, client, FALSE)
                   ELSE update_account_write(f,
                            update_names(client, last_name, first_name),
                            position, <<"acct", "choice", "lname", "fname">>, in.wfail)
              [] in.choice.val = 3 ->
                   IF ~names_ok
                   THEN Result(f, 0, io_abort,
                               <<"acct", "choice", "lname", "fname", "amount">>,
                               client, FALSE)
                   ELSE update_account_write(f,
                            update_all(client, last_name, first_name, transaction),
                            position,
                            <<"acct", "choice", "lname", "fname", "amount">>, in.wfail)
              [] OTHER ->
                   Result(f, 0, io_abort, <<"acct", "choice">>, client, FALSE)

\* A variant that goes on to the menu whenever the read succeeded.
update_account_any_record(f, in) ==
    LET acct_num == get_account_number(in.acct)
        position == acct_num - 1
        r == read_client_from_file(f, position)
    IN IF acct_num = 0
       THEN Result(f, 0, <<>>, <<"acct">>, empty_client, FALSE)
       ELSE IF ~fopen_ok(f, "rb+")
       THEN Result(f, 0, <<"open_failed">>, <<"acct">>, empty_client, FALSE)
       ELSE IF ~r.ok
       THEN Result(f, 0, <<"open", "read", "close">>, <<"acct">>, empty_client, FALSE)
       ELSE update_account_menu(f, r.client, position, in)

update_account(f, in) ==
    LET acct_num == get_account_number(in.acct)
        position == acct_num - 1
        r == read_client_from_file(f, position)
    IN IF acct_num = 0
       THEN Result(f, 0, <<>>, <<"acct">>, empty_client, FALSE)
       ELSE IF ~fopen_ok(f, "rb+")
       THEN Result(f, 0, <<"open_failed">>, <<"acct">>, empty_client, FALSE)
       ELSE IF ~r.ok \/ r.client.acct_num = 0
       THEN Result(f, 0, <<"open", "read", "close">>, <<"acct">>, empty_client, FALSE)
       ELSE update_account_menu(f, r.client, position, in)

tolower(c) == IF c = "Y" THEN "y" ELSE c

\* A variant that marks the record deleted by zeroing its id alone.
delete_account_confirm_id_only(f, client, position, in) ==
    LET io_abort == <<"open", "read", "close">>
        warned == client.balance # 0
        w == write_client_to_file(f, [client EXCEPT !.acct_num = 0], position,
                                  in.wfail)
    IN IF ~in.confirm.ok
       THEN Result(f, 0, io_abort, <<"acct", "confirm">>, client, warned)
       ELSE IF tolower(in.confirm.val) # "y"
       THEN Result(f, 0, io_abort, <<"acct", "confirm">>, client, warned)
       ELSE Result(w.file, IF w.ok THEN 1 ELSE 0,
                   <<"open", "read", "write", "close">>, <<"acct", "confirm">>,
                   empty_client, warned)

\* A variant that writes back the record it read.
delete_account_confirm_writes_back(f, client, position, in) ==
    LET io_abort == <<"open", "read", "close">>
        warned == client.balance # 0
        w == write_client_to_file(f, client, position, in.wfail)
    IN IF ~in.confirm.ok
       THEN Result(f, 0, io_abort, <<"acct", "confirm">>, client, warned)
       ELSE IF tolower(in.confirm.val) # "y"
       THEN Result(f, 0, io_abort, <<"acct", "confirm">>, client, warned)
       ELSE Result(w.file, IF w.ok THEN 1 ELSE 0,
                   <<"open", "read", "write", "close">>, <<"acct", "confirm">>,
                   empty_client, warned)

\* A variant that takes an answer it could not read for a yes.
delete_account_confirm_default_yes(f, client, position, in) ==
    LET io_abort == <<"open", "read", "close">>
        warned == client.balance # 0
        w == write_client_to_file(f, empty_client, position, in.wfail)
    IN IF in.confirm.ok /\ tolower(in.confirm.val) # "y"
       THEN Result(f, 0, io_abort, <<"acct", "confirm">>, client, warned)
       ELSE Result(w.file, IF w.ok THEN 1 ELSE 0,
                   <<"open", "read", "write", "close">>, <<"acct", "confirm">>,
                   empty_client, warned)

\* delete_account once the account is found: the warning, the confirmation
\* and the write of the empty record.
delete_account_confirm(f, client, position, in) ==
    LET io_abort == <<"open", "read", "close">>
        warned == client.balance # 0
        w == write_client_to_file(f, empty_client, position, in.wfail)
    IN IF ~in.confirm.ok
       THEN Result(f, 0, io_abort, <<"acct", "confirm">>, client, warned)
       ELSE IF tolower(in.confirm.val) # "y"
       THEN Result(f, 0, io_abort, <<"acct", "confirm">>, client, warned)
       ELSE Result(w.file, IF w.ok THEN 1 ELSE 0,
                   <<"open", "read", "write", "close">>, <<"acct", "confirm">>,
                   empty_client, warned)

\* A variant that goes on to the confirmation whenever the read succeeded.
delete_account_any_record(f, in) ==
    LET acct_num == get_account_number(in.acct)
        position == acct_num - 1
        r == read_client_from_file(f, position)
    IN IF acct_num = 0
       THEN Result(f, 0, <<>>, <<"acct">>, empty_client, FALSE)
       ELSE IF ~fopen_ok(f, "rb+")
       THEN Result(f, 0, <<"open_failed">>, <<"acct">>, empty_client, FALSE)
       ELSE IF ~r.ok
       THEN Result(f, 0, <<"open", "read", "close">>, <<"acct">>, empty_client, FALSE)
       ELSE delete_account_confirm(f, r.client, position, in)

delete_account(f, in) ==
    LET acct_num == get_account_number(in.acct)
        position == acct_num - 1
        r == read_client_from_file(f, position)
    IN IF acct_num = 0
       THEN Result(f, 0, <<>>, <<"acct">>, empty_client, FALSE)
       ELSE IF ~fopen_ok(f, "rb+")
       THEN Result(f, 0, <<"open_failed">>, <<"acct">>, empty_client, FALSE)
       ELSE IF ~r.ok \/ r.client.acct_num = 0
       THEN Result(f, 0, <<"open", "read", "close">>, <<"acct">>, empty_client, FALSE)
       ELSE delete_account_confirm(f, r.client, position, in)

\* ------------------------------------------------------------------ initialisation

\* The number of records written before fwrite starts failing while the file
\* is being initialised (MAX_ACCOUNTS: no write fails).
InitFailPoints == {0, 10, MAX_ACCOUNTS}

\* initialize_data_file of version2.c: truncate, then write empty records
\* until one write fails. The function returns nothing.
initialize_data_file(f, failAt) ==
    [exists |-> TRUE, slots |-> Zeros(failAt)]

\* A variant that creates the file whether or not it is there.
initialize_data_file_if_needed_always(f, failAt) ==
    [exists |-> TRUE, slots |-> Zeros(failAt)]

\* initialize_data_file_if_needed of version3.c: an existing file is left
\* alone; the results of the writes are not looked at.
initialize_data_file_if_needed(f, failAt) ==
    IF fopen_ok(f, "rb") THEN f
    ELSE [exists |-> TRUE, slots |-> Zeros(failAt)]

\* What initialize_data_file prints: the error of the write that failed, if
\* one did, and after the loop, in either case, that the file is initialised.
initialize_data_file_printed(failAt) ==
    (IF failAt < MAX_ACCOUNTS THEN <<"Error: Could not initialize record">> ELSE <<>>)
    \o <<"Data file initialized with 100 empty records">>

\* What initialize_data_file_if_needed prints.
initialize_data_file_if_needed_printed(f, failAt) ==
    IF fopen_ok(f, "rb") THEN <<"Data file found">>
    ELSE <<"Creating new data file", "Data file initialized with 100 empty slots">>

\* ------------------------------------------------------------------ tests and demonstrations

Smith == <<"S","m","i","t","h">>
John == <<"J","o","h","n">>
Johnson == <<"J","o","h","n","s","o","n">>
Mary == <<"M","a","r","y">>
Williams == <<"W","i","l","l","i","a","m","s">>
Bob == <<"B","o","b">>
Davis == <<"D","a","v","i","s">>
Alice == <<"A","l","i","c","e">>
TestLast == <<"T","e","s","t","L","a","s","t">>
TestFirst == <<"T","e","s","t","F","i","r","s","t">>
ReadTest == <<"R","e","a","d","T","e","s","t">>
User == <<"U","s","e","r">>
First == <<"F","i","r","s","t">>
Second == <<"S","e","c","o","n","d">>
Client == <<"C","l","i","e","n","t">>
Manager == <<"M","a","n","a","g","e","r">>
Test == <<"T","e","s","t">>

\* Every write of a sequence in order, each at its own position (the writes
\* of the tests and demonstrations are followed on their success path).
RECURSIVE WriteAll(_, _)
WriteAll(f, writes) ==
    IF Len(writes) = 0 THEN f
    ELSE WriteAll(write_client_to_file(f, Head(writes).client,
                                       Head(writes).position, FALSE).file,
                  Tail(writes))

At(position, client) == [position |-> position, client |-> client]

\* version2.c test_file_writing: [file, ret]. "wb+" truncates the file.
v2_test_file_writing(f) ==
    LET opened == fopen_file(f, "wb+")
        test_client == client_data(99, TestLast, TestFirst, 12345)
        w == write_client_to_file(opened, test_client, 10, FALSE)
    IN [file |-> w.file, ret |-> IF w.ok THEN 1 ELSE 0]

\* version2.c test_file_reading
v2_test_file_reading(f) ==
    IF ~fopen_ok(f, "rb+") THEN [file |-> f, ret |-> 0]
    ELSE LET write_client == client_data(88, ReadTest, User, 55555)
             w == write_client_to_file(f, write_client, 20, FALSE)
             r == v2_read_client_from_file(w.file, 20)
         IN [file |-> w.file,
             ret |-> IF r.ok /\ r.client.acct_num = 88
                        /\ r.client.last_name = ReadTest
                        /\ r.client.balance = 55555 THEN 1 ELSE 0]

\* version2.c test_file_positioning
v2_test_file_positioning(f) ==
    IF ~fopen_ok(f, "rb+") THEN [file |-> f, ret |-> 0]
    ELSE LET client1 == client_data(11, First, Client, 10000)
             client2 == client_data(22, Second, Client, 20000)
             g == WriteAll(f, <<At(5, client1), At(15, client2)>>)
             r15 == v2_read_client_from_file(g, 15)
             r5 == v2_read_client_from_file(g, 5)
         IN [file |-> g,
             ret |-> IF r15.client.acct_num # 22 THEN 0
                     ELSE IF r5.client.acct_num # 11 THEN 0 ELSE 1]

\* version2.c demonstrate_file_concepts: the sample records it stores.
v2_demonstrate_file_concepts(f) ==
    IF ~fopen_ok(f, "rb+") THEN f
    ELSE WriteAll(f, <<At(1 - 1, client_data(1, Smith, John, 150075)),
                       At(5 - 1, client_data(5, Johnson, Mary, -25050)),
                       At(10 - 1, client_data(10, Williams, Bob, 320000)),
                       At(25 - 1, client_data(25, Davis, Alice, 100000))>>)

\* version3.c test_crud_operations: create, read, update and delete at slot 98.
test_crud_operations(f) ==
    IF ~fopen_ok(f, "rb+") THEN [file |-> f, ret |-> 0]
    ELSE LET test_client == initialize_client(99, TestLast, TestFirst, 10000)
             w1 == write_client_to_file(f, test_client, 98, FALSE)
             r == read_client_from_file(w1.file, 98)
             w2 == write_client_to_file(w1.file,
                       [r.client EXCEPT !.balance = r.client.balance + 5000],
                       98, FALSE)
             w3 == write_client_to_file(w2.file, empty_client, 98, FALSE)
         IN IF ~w1.ok THEN [file |-> w1.file, ret |-> 0]
            ELSE IF ~r.ok THEN [file |-> w1.file, ret |-> 0]
            ELSE IF ~w2.ok THEN [file |-> w2.file, ret |-> 0]
            ELSE IF ~w3.ok THEN [file |-> w3.file, ret |-> 0]
            ELSE [file |-> w3.file, ret |-> 1]

\* version3.c test_input_validation
test_input_validation ==
    IF ~validate_account_number(50) \/ validate_account_number(0)
       \/ validate_account_number(101)
    THEN 0
    ELSE IF ~validate_name(Smith) \/ validate_name(<<>>)
            \/ validate_name(<<"1","2","3">>)
    THEN 0
    ELSE 1

\* version3.c test_account_management
test_account_management(f) ==
    IF ~fopen_ok(f, "rb+") THEN [file |-> f, ret |-> 0]
    ELSE LET test_account == client_data(77, Manager, Test, 20000)
             w == write_client_to_file(f, test_account, 76, FALSE)
         IN [file |-> w.file,
             ret |-> IF account_exists(w.file, 77).ret = 0 THEN 0
                     ELSE IF account_exists(w.file, 88).ret # 0 THEN 0 ELSE 1]

\* version3.c demonstrate_crud_operations: the samples, then a deposit of 500
\* on the record at slot 4.
demonstrate_crud_operations(f) ==
    IF ~fopen_ok(f, "rb+") THEN f
    ELSE LET g == WriteAll(f,
                    <<At(1 - 1, initialize_client(1, Smith, John, 150075)),
                      At(5 - 1, initialize_client(5, Johnson, Mary, -25050)),
                      At(10 - 1, initialize_client(10, Williams, Bob, 320000)),
                      At(25 - 1, initialize_client(25, Davis, Alice, 0))>>)
             r == read_client_from_file(g, 4)
         IN IF r.ok /\ r.client.acct_num # 0
            THEN write_client_to_file(g,
                     [r.client EXCEPT !.balance = r.client.balance + 50000],
                     4, FALSE).file
            ELSE g

\* ------------------------------------------------------------------ state

VARIABLES
    file,   \* accounts.dat: [exists, slots]
    pc,     \* "idle", "returned" (a call's result is with its caller), or the
            \* next step of a running main()
    last    \* the most recent call: its name, input, result and the file before it

vars == <<file, pc, last>>

NoInput ==
    [acct |-> NoNumber, lname |-> NoLine, fname |-> NoLine, amount |-> NoNumber,
     choice |-> NoNumber, confirm |-> NoChar, wfail |-> FALSE]

Call(op, in, r) ==
    [op |-> op, in |-> in, ret |-> r.ret, io |-> r.io, prompts |-> r.prompts,
     client |-> r.client, warned |-> r.warned, pre |-> file, printed |-> <<>>]

\* A step of a main(): a function that prompts for nothing.
Step(op, ret) ==
    [op |-> op, in |-> NoInput, ret |-> ret, io |-> <<>>, prompts |-> <<>>,
     client |-> empty_client, warned |-> FALSE, pre |-> file, printed |-> <<>>]

\* An initialisation: a void function; wfail tells whether one of its writes
\* failed, printed what it wrote to the terminal.
InitStep(op, wfail, printed) ==
    [Step(op, 0) EXCEPT !.in.wfail = wfail, !.printed = printed]

\* No call has been made, or the caller has taken the last call's result.
NoCall ==
    [op |-> "none", in |-> NoInput, ret |-> 0, io |-> <<>>, prompts |-> <<>>,
     client |-> empty_client, warned |-> FALSE, pre |-> NoFile, printed |-> <<>>]

Init ==
    /\ file = NoFile
    /\ pc = "idle"
    /\ last = NoCall

\* The answers typed at a prompt the call issues; nothing is typed at a prompt
\* it does not issue.
Asked(prompts, name, answers, none) ==
    IF name \in Range(prompts) THEN answers ELSE {none}

\* fwrite can fail only in a call that reaches it.
WriteFails(io) == IF "write" \in Range(io) THEN BOOLEAN ELSE {FALSE}

\* The model follows a stored balance up to MaxBalance and down to an
\* overdraft of MaxOverdraft.
BalanceFollowed(r) ==
    "write" \in Range(r.io) /\ r.client.acct_num # 0
        => r.client.balance \in (0 - MaxOverdraft)..MaxBalance

\* ------------------------------------------------------------------ actions: CRUD

CreateAccount ==
    /\ pc = "idle"
    /\ \E acct \in AcctInputs :
         LET in1 == [NoInput EXCEPT !.acct = acct]
             p == create_account(file, in1).prompts
         IN \E ln \in Asked(p, "lname", LastInputs, NoLine),
               fn \in Asked(p, "fname", FirstInputs, NoLine),
               amt \in Asked(p, "amount", AmountInputs, NoNumber) :
              LET in2 == [in1 EXCEPT !.lname = ln, !.fname = fn, !.amount = amt]
              IN \E wfail \in WriteFails(create_account(file, in2).io) :
                   LET in == [in2 EXCEPT !.wfail = wfail]
                       r == create_account(file, in)
                   IN /\ BalanceFollowed(r)
                      /\ file' = r.file
                      /\ last' = Call("create_account", in, r)
                      /\ pc' = "returned"

ReadAccount ==
    /\ pc = "idle"
    /\ \E acct \in AcctInputs :
         LET in == [NoInput EXCEPT !.acct = acct]
             r == read_account(file, in)
         IN /\ file' = r.file
            /\ last' = Call("read_account", in, r)
            /\ pc' = "returned"

UpdateAccount ==
    /\ pc = "idle"
    /\ \E acct \in AcctInputs :
         LET in1 == [NoInput EXCEPT !.acct = acct]
         IN \E ch \in Asked(update_account(file, in1).prompts, "choice",
                            ChoiceInputs, NoNumber) :
              LET in2 == [in1 EXCEPT !.choice = ch]
                  p == update_account(file, in2).prompts
              IN \E ln \in Asked(p, "lname", LastInputs, NoLine),
                    fn \in Asked(p, "fname", FirstInputs, NoLine),
                    amt \in Asked(p, "amount", AmountInputs, NoNumber) :
                   LET in3 == [in2 EXCEPT !.lname = ln, !.fname = fn, !.amount = amt]
                   IN \E wfail \in WriteFails(update_account(file, in3).io) :
                        LET in == [in3 EXCEPT !.wfail = wfail]
                            r == update_account(file, in)
                        IN /\ BalanceFollowed(r)
                           /\ file' = r.file
                           /\ last' = Call("update_account", in, r)
                           /\ pc' = "returned"

DeleteAccount ==
    /\ pc = "idle"
    /\ \E acct \in AcctInputs :
         LET in1 == [NoInput EXCEPT !.acct = acct]
         IN \E cf \in Asked(delete_account(file, in1).prompts, "confirm",
                            ConfirmInputs, NoChar) :
              LET in2 == [in1 EXCEPT !.confirm = cf]
              IN \E wfail \in WriteFails(delete_account(file, in2).io) :
                   LET in == [in2 EXCEPT !.wfail = wfail]
                       r == delete_account(file, in)
                   IN /\ file' = r.file
                      /\ last' = Call("delete_account", in, r)
                      /\ pc' = "returned"

\* account_exists takes its account number as an argument: the numbers the
\* model hands it.
ExistsProbes == {0, 1, 77, 88, 100, 101}

AccountExists ==
    /\ pc = "idle"
    /\ \E acct_num \in ExistsProbes :
         LET in == [NoInput EXCEPT !.acct = Scan(TRUE, acct_num)]
             ex == account_exists(file, acct_num)
         IN last' = Call("account_exists", in,
                         Result(file, ex.ret, ex.io, <<>>, empty_client, FALSE))
    /\ pc' = "returned"
    /\ UNCHANGED file

\* ------------------------------------------------------------------ actions: main() of version2.c

V2InitializeDataFile ==
    /\ pc = "idle"
    /\ \E failAt \in InitFailPoints :
         /\ file' = initialize_data_file(file, failAt)
         /\ last' = InitStep("initialize_data_file", failAt < MAX_ACCOUNTS,
                              initialize_data_file_printed(failAt))
    /\ pc' = "returned"

\* run_all_tests of version2.c, then its demonstration. test_file_creation
\* works on test_file.dat alone.
V2TestFileCreation ==
    /\ pc = "idle"
    /\ last' = Step("test_file_creation", 1)
    /\ pc' = "v2_test_file_writing"
    /\ UNCHANGED file

V2TestFileWriting ==
    /\ pc = "v2_test_file_writing"
    /\ file' = v2_test_file_writing(file).file
    /\ last' = Step("test_file_writing", v2_test_file_writing(file).ret)
    /\ pc' = "v2_test_file_reading"

V2TestFileReading ==
    /\ pc = "v2_test_file_reading"
    /\ file' = v2_test_file_reading(file).file
    /\ last' = Step("test_file_reading", v2_test_file_reading(file).ret)
    /\ pc' = "v2_test_file_positioning"

V2TestFilePositioning ==
    /\ pc = "v2_test_file_positioning"
    /\ file' = v2_test_file_positioning(file).file
    /\ last' = Step("test_file_positioning", v2_test_file_positioning(file).ret)
    /\ pc' = "v2_demonstrate_file_concepts"

V2DemonstrateFileConcepts ==
    /\ pc = "v2_demonstrate_file_concepts"
    /\ file' = v2_demonstrate_file_concepts(file)
    /\ last' = Step("demonstrate_file_concepts", 0)
    /\ pc' = "returned"

\* ------------------------------------------------------------------ actions: main() of version3.c

V3InitializeDataFileIfNeeded ==
    /\ pc = "idle"
    /\ \E failAt \in Asked(IF fopen_ok(file, "rb") THEN <<>> ELSE <<"wb">>, "wb",
                           InitFailPoints, MAX_ACCOUNTS) :
         /\ file' = initialize_data_file_if_needed(file, failAt)
         /\ last' = InitStep("initialize_data_file_if_needed", failAt < MAX_ACCOUNTS,
                              initialize_data_file_if_needed_printed(file, failAt))
    /\ pc' = "returned"

\* run_all_tests of version3.c, then its demonstration.
V3TestCrudOperations ==
    /\ pc = "idle"
    /\ file' = test_crud_operations(file).file
    /\ last' = Step("test_crud_operations", test_crud_operations(file).ret)
    /\ pc' = "v3_test_input_validation"

V3TestInputValidation ==
    /\ pc = "v3_test_input_validation"
    /\ last' = Step("test_input_validation", test_input_validation)
    /\ pc' = "v3_test_account_management"
    /\ UNCHANGED file

V3TestAccountManagement ==
    /\ pc = "v3_test_account_management"
    /\ file' = test_account_management(file).file
    /\ last' = Step("test_account_management", test_account_management(file).ret)
    /\ pc' = "v3_demonstrate_crud_operations"

V3DemonstrateCrudOperations ==
    /\ pc = "v3_demonstrate_crud_operations"
    /\ file' = demonstrate_crud_operations(file)
    /\ last' = Step("demonstrate_crud_operations", 0)
    /\ pc' = "returned"

\* The caller takes the result of the call and is ready for the next one.
Return ==
    /\ pc = "returned"
    /\ pc' = "idle"
    /\ last' = NoCall
    /\ UNCHANGED file

Next ==
    \/ Return
    \/ CreateAccount
    \/ ReadAccount
    \/ UpdateAccount
    \/ DeleteAccount
    \/ AccountExists
    \/ V2InitializeDataFile
    \/ V2TestFileCreation
    \/ V2TestFileWriting
    \/ V2TestFileReading
    \/ V2TestFilePositioning
    \/ V2DemonstrateFileConcepts
    \/ V3InitializeDataFileIfNeeded
    \/ V3TestCrudOperations
    \/ V3TestInputValidation
    \/ V3TestAccountManagement
    \/ V3DemonstrateCrudOperations

Spec == Init /\ [][Next]_vars

\* ------------------------------------------------------------------ vocabulary of the properties

\* The call whose result is with its caller.
Returned(op) == pc = "returned" /\ last.op = op

\* The account number typed at the prompt (0 when no number was typed), the
\* names handed over by the prompts and the amount typed.
GivenId == IF last.in.acct.ok THEN last.in.acct.val ELSE 0
GivenLast == get_name_input(last.in.lname, LAST_NAME_SIZE)
GivenFirst == get_name_input(last.in.fname, FIRST_NAME_SIZE)
GivenAmount == IF last.in.amount.ok THEN last.in.amount.val ELSE 0

IdInRange(n) == n \in 1..100

NameChars == Letters \cup {" ", "-", "'"}
NameIsValid(name) == name # <<>> /\ \A i \in 1..Len(name) : name[i] \in NameChars

\* Slot k - 1 of file f is in the file; it holds a record; it holds id 0.
HasSlot(f, k) == f.exists /\ k \in 1..Len(f.slots)
Occupied(f, k) == HasSlot(f, k) /\ f.slots[k].acct_num # 0
Vacant(f, k) == HasSlot(f, k) /\ f.slots[k].acct_num = 0

\* The call opened, read or wrote accounts.dat.
FileAccessed == Range(last.io) \cap {"open", "read", "write"} # {}
Wrote == "write" \in Range(last.io)

\* A freshly initialised store: 100 empty records.
FreshStore(f) ==
    /\ f.exists
    /\ Len(f.slots) = 100
    /\ \A i \in 1..100 : f.slots[i] = empty_client

\* ------------------------------------------------------------------ C1

\* C1 (as claimed): in every reachable state of the backing file, every slot i
\* in 0..99 holds id 0 or id i+1, whatever operation, test or demonstration
\* has run.
C1_SlotHoldsOwnId ==
    \A i \in 0..99 :
        i < Len(file.slots) => file.slots[i + 1].acct_num \in {0, i + 1}

\* ------------------------------------------------------------------ C2

\* C2: Create with an id in 1..100, two valid names, no record at slot id-1 of
\* the existing file and a write that succeeds stores {id, last, first,
\* balance} at slot id-1 and reports success; the slot then holds id, and a
\* Read of id succeeds and shows exactly that record.
C2_CreateStoresRecord ==
    Returned("create_account")
      /\ IdInRange(GivenId)
      /\ NameIsValid(GivenLast) /\ NameIsValid(GivenFirst)
      /\ last.pre.exists /\ ~Occupied(last.pre, GivenId)
      /\ ~last.in.wfail
    => /\ last.ret = 1
       /\ Wrote
       /\ HasSlot(file, GivenId)
       /\ file.slots[GivenId] =
              client_data(GivenId, GivenLast, GivenFirst, GivenAmount)
       /\ file.slots[GivenId].acct_num = GivenId
       /\ read_account(file, last.in).ret = 1
       /\ read_account(file, last.in).client =
              client_data(GivenId, GivenLast, GivenFirst, GivenAmount)

C2_Witness ==
    /\ Returned("create_account")
    /\ last.ret = 1
    /\ Vacant(last.pre, GivenId)
    /\ GivenLast = <<"O","'","R","-","e">>
    /\ GivenAmount = 10000
    /\ file.slots[GivenId] =
           client_data(GivenId, GivenLast, GivenFirst, GivenAmount)

\* ------------------------------------------------------------------ C3

\* C3: Create on an id whose slot holds a record fails, writes nothing and
\* leaves that record, and the whole file, as it was.
C3_DuplicateRejected ==
    Returned("create_account") /\ IdInRange(GivenId) /\ Occupied(last.pre, GivenId)
    => /\ last.ret = 0
       /\ ~Wrote
       /\ file = last.pre
       /\ file.slots[GivenId] = last.pre.slots[GivenId]

C3_Witness ==
    /\ Returned("create_account")
    /\ IdInRange(GivenId)
    /\ Occupied(last.pre, GivenId)
    /\ last.pre.slots[GivenId].last_name = <<"D","o","e">>
    /\ last.ret = 0
    /\ file.slots[GivenId] = last.pre.slots[GivenId]

\* ------------------------------------------------------------------ C4

\* C4: on a freshly initialised store Create with id 1 and with id 100
\* succeeds (valid names, the write succeeding) and Create with id 0 or 101
\* is rejected at the account number: it fails, touches no file and leaves
\* every slot as it was.  An id of 1 or 100 passes the account number check:
\* the call goes on to ask for the names.
C4_BoundaryIds ==
    Returned("create_account") /\ last.in.acct.ok
    => /\ GivenId \in {1, 100} /\ FreshStore(last.pre)
          => "lname" \in Range(last.prompts)
       /\ GivenId \in {1, 100} /\ FreshStore(last.pre)
          /\ NameIsValid(GivenLast) /\ NameIsValid(GivenFirst) /\ ~last.in.wfail
          => last.ret = 1 /\ file.slots[GivenId].acct_num = GivenId
       /\ GivenId \in {0, 101}
          => /\ last.ret = 0
             /\ last.io = <<>>
             /\ last.prompts = <<"acct">>
             /\ file = last.pre

C4_Witness ==
    /\ Returned("create_account")
    /\ GivenId = 100
    /\ FreshStore(last.pre)
    /\ last.ret = 1
    /\ file.slots[100].acct_num = 100

C4_WitnessRejected ==
    /\ Returned("create_account")
    /\ last.in.acct.ok /\ GivenId = 101
    /\ FreshStore(last.pre)
    /\ last.ret = 0

\* ------------------------------------------------------------------ C5

C6_ReadFindsOrNot ==
    Returned("read_account") /\ IdInRange(GivenId)
    => /\ Vacant(last.pre, GivenId) => last.ret = 0
       /\ Occupied(last.pre, GivenId)
          => last.ret = 1 /\ last.client = last.pre.slots[GivenId]
       /\ file = last.pre
       /\ ~Wrote

C6_Witness ==
    /\ Returned("read_account")
    /\ Occupied(last.pre, GivenId)
    /\ last.ret = 1
    /\ last.client = client_data(100, <<"D","o","e">>, <<"J","a","n","e">>, 5000)

C6_WitnessNotFound ==
    /\ Returned("read_account")
    /\ IdInRange(GivenId)
    /\ Vacant(last.pre, GivenId)
    /\ last.ret = 0

\* ------------------------------------------------------------------ C7

\* C7: Update on an id whose slot holds id 0, or lies beyond the end of the
\* file and so cannot be read, fails, writes nothing and leaves the file as
\* it was: no account appears.
C7_UpdateNeverCreates ==
    Returned("update_account") /\ IdInRange(GivenId) /\ last.pre.exists
      /\ ~Occupied(last.pre, GivenId)
    => /\ last.ret = 0
       /\ ~Wrote
       /\ file = last.pre
       /\ ~Occupied(file, GivenId)

C7_Witness ==
    /\ Returned("update_account")
    /\ IdInRange(GivenId)
    /\ Vacant(last.pre, GivenId)
    /\ last.ret = 0
    /\ Vacant(file, GivenId)

C7_WitnessUnreadable ==
    /\ Returned("update_account")
    /\ IdInRange(GivenId)
    /\ last.pre.exists /\ ~HasSlot(last.pre, GivenId)
    /\ last.ret = 0
    /\ file = last.pre

\* ------------------------------------------------------------------ C8

\* C8: an Update that got as far as its menu and then stops -- the choice is
\* not a number, or is outside 1..3, or is 2 or 3 with a new last or first
\* name that is not valid -- fails without writing, and the record in the
\* slot is the one that was there before the call.
UpdateAborted ==
    /\ "choice" \in Range(last.prompts)
    /\ \/ ~last.in.choice.ok
       \/ last.in.choice.val \notin 1..3
       \/ /\ last.in.choice.val \in {2, 3}
          /\ ~NameIsValid(GivenLast) \/ ~NameIsValid(GivenFirst)

C8_AbortedUpdateWritesNothing ==
    Returned("update_account") /\ UpdateAborted
    => /\ last.ret = 0
       /\ ~Wrote
       /\ Occupied(file, GivenId)
       /\ file.slots[GivenId] = last.pre.slots[GivenId]
       /\ file = last.pre

C8_Witness ==
    /\ Returned("update_account")
    /\ last.in.choice.ok /\ last.in.choice.val = 3
    /\ GivenLast = <<"D","0","e">>
    /\ NameIsValid(GivenFirst)
    /\ last.ret = 0
    /\ Occupied(file, GivenId)
    /\ file.slots[GivenId] = last.pre.slots[GivenId]

C8_WitnessBadChoice ==
    /\ Returned("update_account")
    /\ last.in.choice.ok /\ last.in.choice.val = 4
    /\ last.ret = 0
    /\ Occupied(file, GivenId)

\* ------------------------------------------------------------------ C9

\* C9: a successful balance Update (choice 1) with amount d on an account
\* with balance b stores balance b + d, negative or not, and leaves the id
\* and both names of the record as they were.
C9_BalanceUpdateAdds ==
    Returned("update_account") /\ last.in.choice.ok /\ last.in.choice.val = 1
      /\ last.ret = 1
    => /\ Occupied(last.pre, GivenId)
       /\ Occupied(file, GivenId)
       /\ file.slots[GivenId].balance =
              last.pre.slots[GivenId].balance + GivenAmount
       /\ file.slots[GivenId].acct_num = last.pre.slots[GivenId].acct_num
       /\ file.slots[GivenId].last_name = last.pre.slots[GivenId].last_name
       /\ file.slots[GivenId].first_name = last.pre.slots[GivenId].first_name

\* Create with balance 100.00, then Update with +50.00: the balance is 150.00.
C9_Witness ==
    /\ Returned("update_account")
    /\ last.in.choice.ok /\ last.in.choice.val = 1
    /\ last.ret = 1
    /\ last.pre.slots[GivenId].balance = 10000
    /\ GivenAmount = 5000
    /\ file.slots[GivenId].balance = 15000
    /\ read_account(file, last.in).client.balance = 15000

C9_WitnessNegative ==
    /\ Returned("update_account")
    /\ last.in.choice.ok /\ last.in.choice.val = 1
    /\ last.ret = 1
    /\ file.slots[GivenId].balance < 0

\* ------------------------------------------------------------------ C10

\* C10: a Delete, confirmed with y or Y, of an id whose slot holds a record,
\* the write succeeding, stores the empty record (id 0, empty names, balance
\* 0) in slot id-1 and reports success whatever the balance was; the account
\* then does not exist. A Delete of an id whose slot holds id 0 fails and
\* writes nothing.
C10_DeleteStoresSentinel ==
    Returned("delete_account") /\ IdInRange(GivenId)
    => /\ Occupied(last.pre, GivenId)
          /\ last.in.confirm.ok /\ last.in.confirm.val \in {"y", "Y"}
          /\ ~last.in.wfail
          => /\ last.ret = 1
             /\ file.slots[GivenId] = client_data(0, <<>>, <<>>, 0)
             /\ account_exists(file, GivenId).ret = 0
             /\ last.warned = (last.pre.slots[GivenId].balance # 0)
       /\ Vacant(last.pre, GivenId)
          => last.ret = 0 /\ ~Wrote /\ file = last.pre

C10_Witness ==
    /\ Returned("delete_account")
    /\ Occupied(last.pre, GivenId)
    /\ last.pre.slots[GivenId].balance = 15000
    /\ last.warned
    /\ last.ret = 1
    /\ Vacant(file, GivenId)

C10_WitnessNotFound ==
    /\ Returned("delete_account")
    /\ IdInRange(GivenId)
    /\ Vacant(last.pre, GivenId)
    /\ last.ret = 0

\* ------------------------------------------------------------------ sequences of calls

\* A second specification follows short sequences of calls on one store and
\* keeps every call of the sequence: here last is the sequence of the calls
\* made so far, oldest first, and pc stays "idle" (no call is in progress
\* between two calls).  The store starts freshly initialised.
MaxTrail == 3

TrailAccts == {Scan(TRUE, 1), Scan(TRUE, 100)}
TrailLasts == {<<"D","o","e">>, <<"R","o","e">>}
TrailFirsts == {<<"J","a","n","e">>, <<"A","l">>}
TrailAmounts == {Scan(TRUE, 5000), Scan(TRUE, 10000)}
TrailConfirms == {Scan(TRUE, "y"), Scan(TRUE, "n")}

TrailInit ==
    /\ file = initialize_data_file_if_needed(NoFile, MAX_ACCOUNTS)
    /\ pc = "idle"
    /\ last = <<>>

TrailCreate ==
    /\ Len(last) < MaxTrail
    /\ \E acct \in TrailAccts :
         LET in1 == [NoInput EXCEPT !.acct = acct]
             p == create_account(file, in1).prompts
         IN \E ln \in Asked(p, "lname", TrailLasts, NoLine),
               fn \in Asked(p, "fname", TrailFirsts, NoLine),
               amt \in Asked(p, "amount", TrailAmounts, NoNumber) :
              LET in == [in1 EXCEPT !.lname = ln, !.fname = fn, !.amount = amt]
                  r == create_account(file, in)
              IN /\ file' = r.file
                 /\ last' = Append(last, Call("create_account", in, r))
    /\ UNCHANGED pc

TrailDelete ==
    /\ Len(last) < MaxTrail
    /\ \E acct \in TrailAccts :
         LET in1 == [NoInput EXCEPT !.acct = acct]
         IN \E cf \in Asked(delete_account(file, in1).prompts, "confirm",
                            TrailConfirms, NoChar) :
              LET in == [in1 EXCEPT !.confirm = cf]
                  r == delete_account(file, in)
              IN /\ file' = r.file
                 /\ last' = Append(last, Call("delete_account", in, r))
    /\ UNCHANGED pc

TrailNext ==
    \/ TrailCreate
    \/ TrailDelete

TrailSpec == TrailInit /\ [][TrailNext]_vars

\* The record Create builds from what was typed in call c.
TypedRecord(c) ==
    client_data(c.in.acct.val,
                get_name_input(c.in.lname, LAST_NAME_SIZE),
                get_name_input(c.in.fname, FIRST_NAME_SIZE),
                c.in.amount.val)

\* The file call j of the sequence left.
FileAfter(j) == IF j < Len(last) THEN last[j + 1].pre ELSE file

\* Calls i, i+1 of the sequence are Create(k, d1), Delete(k), and call i+2 is
\* Create(k, d2), each successful.
CreateDelete(i, k) ==
    /\ i + 1 <= Len(last)
    /\ last[i].op = "create_account" /\ last[i].ret = 1
    /\ last[i].in.acct.val = k
    /\ last[i + 1].op = "delete_account" /\ last[i + 1].ret = 1
    /\ last[i + 1].in.acct.val = k

CreateDeleteCreate(i, k) ==
    /\ CreateDelete(i, k)
    /\ i + 2 <= Len(last)
    /\ last[i + 2].op = "create_account" /\ last[i + 2].ret = 1
    /\ last[i + 2].in.acct.val = k

\* ------------------------------------------------------------------ C11

\* C11: after Create(k, d1), Delete(k), Create(k, d2), all successful, the
\* account did not exist in the file the Delete left (the file the second
\* Create started from), and Read(k) on the file the second Create left
\* succeeds and displays exactly d2: id k, the names and the balance typed
\* at the second Create.
C11_DeleteThenRecreate ==
    \A i \in 1..Len(last), k \in {1, 100} :
        /\ CreateDelete(i, k) => account_exists(FileAfter(i + 1), k).ret = 0
        /\ CreateDeleteCreate(i, k)
           => LET rd == read_account(FileAfter(i + 2),
                                     [NoInput EXCEPT !.acct = Scan(TRUE, k)])
              IN /\ rd.ret = 1
                 /\ rd.client = TypedRecord(last[i + 2])
                 /\ rd.client.acct_num = k

\* The two data sets differ in every field but the id.
C11_Witness ==
    \E k \in {1, 100} :
        /\ CreateDeleteCreate(1, k)
        /\ TypedRecord(last[1]).last_name # TypedRecord(last[3]).last_name
        /\ TypedRecord(last[1]).first_name # TypedRecord(last[3]).first_name
        /\ TypedRecord(last[1]).balance # TypedRecord(last[3]).balance
        /\ FileAfter(3).slots[k] = TypedRecord(last[3])

\* ------------------------------------------------------------------ C12

\* C12 (as claimed): when initialize_data_file or
\* initialize_data_file_if_needed has returned, whatever the file held before,
\* the file is 100 slots each holding the empty record, and account_exists is
\* false for every id in 1..100.
C12_InitializeLeavesFreshStore ==
    Returned("initialize_data_file") \/ Returned("initialize_data_file_if_needed")
    => /\ FreshStore(file)
       /\ \A k \in 1..100 : account_exists(file, k).ret = 0

\* ------------------------------------------------------------------ C13

\* C13 (as claimed): once the file is 100 slots long, no step of the programs
\* (a slot write, a CRUD call, a test, a demonstration, an initialisation)
\* changes its length.
C13_LengthNeverChanges ==
    [][Len(file.slots) = MAX_ACCOUNTS => Len(file'.slots) = MAX_ACCOUNTS]_vars

\* ------------------------------------------------------------------ C14

\* C14: at all times every slot of the file is either the exact empty record
\* (id 0, both names empty, balance 0) or a record with a non-zero id whose
\* last name and first name are both non-empty and made of letters, spaces,
\* hyphens and apostrophes only.
C14_SlotsSentinelOrValid ==
    \A i \in 1..Len(file.slots) :
        LET c == file.slots[i]
        IN IF c.acct_num = 0
           THEN c = empty_client
           ELSE NameIsValid(c.last_name) /\ NameIsValid(c.first_name)

\* Update has stored new names, typed with spaces, a hyphen and an apostrophe,
\* in a store where slots of both kinds are present.
C14_Witness ==
    /\ Returned("update_account")
    /\ last.ret = 1
    /\ last.in.choice.val \in {2, 3}
    /\ file.slots[GivenId].last_name = <<"O","'","R","-","e">>
    /\ file.slots[GivenId] # last.pre.slots[GivenId]
    /\ \E i \in 1..Len(file.slots) : file.slots[i] = empty_client

\* Create and Update have refused a name with a digit in it.
C14_WitnessRefused ==
    /\ Returned("create_account") \/ Returned("update_account")
    /\ last.ret = 0
    /\ GivenLast = <<"D","0","e">>
    /\ file = last.pre

\* ------------------------------------------------------------------ C15

CrudCalls == {"create_account", "read_account", "update_account", "delete_account"}

\* C15: over one call of Create, Read, Update or Delete, for every id k:
\* slot k-1 goes from empty to occupied only in a successful Create of k, and
\* from occupied to empty only in a successful Delete of k; a successful
\* Update of k finds it occupied and leaves it occupied with the same id;
\* Create of an occupied k, and Update, Delete or Read of an empty k, return
\* failure and leave the file as it was.
C15_OccupancyTransitions ==
    pc = "returned" /\ last.op \in CrudCalls
    => \A k \in 1..100 :
        /\ ~Occupied(last.pre, k) /\ Occupied(file, k)
           => last.op = "create_account" /\ last.ret = 1 /\ GivenId = k
        /\ Occupied(last.pre, k) /\ ~Occupied(file, k)
           => last.op = "delete_account" /\ last.ret = 1 /\ GivenId = k
        /\ last.op = "update_account" /\ last.ret = 1 /\ GivenId = k
           => /\ Occupied(last.pre, k) /\ Occupied(file, k)
              /\ file.slots[k].acct_num = last.pre.slots[k].acct_num
        /\ last.op = "create_account" /\ GivenId = k /\ Occupied(last.pre, k)
           => last.ret = 0 /\ file = last.pre
        /\ last.op # "create_account" /\ GivenId = k /\ ~Occupied(last.pre, k)
           => last.ret = 0 /\ file = last.pre

\* Delete has been refused for an id whose slot is in the file and empty, in
\* a store that holds records.
C15_Witness ==
    /\ Returned("delete_account")
    /\ Vacant(last.pre, GivenId)
    /\ last.ret = 0
    /\ \E k \in 1..100 : Occupied(file, k)

\* The three stated transitions.
C15_WitnessCreated ==
    Returned("create_account") /\ Vacant(last.pre, GivenId) /\ Occupied(file, GivenId)

C15_WitnessDeleted ==
    Returned("delete_account") /\ Occupied(last.pre, GivenId) /\ Vacant(file, GivenId)

C15_WitnessUpdated ==
    /\ Returned("update_account") /\ last.ret = 1
    /\ file.slots[GivenId] # last.pre.slots[GivenId]

\* ------------------------------------------------------------------ the full scans

\* A third specification follows display_all_accounts (version3.c),
\* display_file_contents and create_text_report (version2.c) one iteration of
\* their loop at a time.  Here last is the running call: its name, the loop
\* index i, the positions read so far and the records printed so far.  The
\* file is not written.  The scans run on the files the two programs leave.
ScanCalls == {"display_all_accounts", "display_file_contents", "create_text_report"}

\* accounts.dat after main() of version2.c and after main() of version3.c on
\* a missing file, a fresh store, and a store with accounts 1 and 100.
V2AfterMain ==
    v2_demonstrate_file_concepts(
        v2_test_file_positioning(
            v2_test_file_reading(
                v2_test_file_writing(
                    initialize_data_file(NoFile, MAX_ACCOUNTS)).file).file).file)

V3AfterMain ==
    demonstrate_crud_operations(
        test_account_management(
            test_crud_operations(
                initialize_data_file_if_needed(NoFile, MAX_ACCOUNTS)).file).file)

ScanFiles ==
    LET fresh == initialize_data_file_if_needed(NoFile, MAX_ACCOUNTS)
        doe(n) == initialize_client(n, <<"D","o","e">>, <<"J","a","n","e">>, 5000)
    IN {NoFile, fresh, V2AfterMain, V3AfterMain,
        WriteAll(fresh, <<At(99, doe(100)), At(0, doe(1))>>)}

\* The read of one iteration: version 2's functions call version 2's
\* read_client_from_file.
scan_read(op, f, i) ==
    IF op = "display_all_accounts" THEN read_client_from_file(f, i)
    ELSE v2_read_client_from_file(f, i)

Scanning(op, i, visited, shown) ==
    [op |-> op, i |-> i, visited |-> visited, shown |-> shown]

ScanInit ==
    /\ file \in ScanFiles
    /\ pc = "idle"
    /\ last = Scanning("none", 0, <<>>, <<>>)

\* open_data_file("rb"): without the file the function returns at once.
ScanOpen ==
    /\ pc = "idle"
    /\ last.op = "none"
    /\ \E op \in ScanCalls :
         /\ last' = Scanning(op, 0, <<>>, <<>>)
         /\ pc' = IF fopen_ok(file, "rb") THEN "scan_loop" ELSE "returned"
    /\ UNCHANGED file

\* for (i = 0; i < MAX_ACCOUNTS; i++): read slot i, print it if the read
\* succeeded and the id is not 0.
ScanStep ==
    /\ pc = "scan_loop"
    /\ last.i < MAX_ACCOUNTS
    /\ LET r == scan_read(last.op, file, last.i)
       IN last' = Scanning(last.op, last.i + 1, Append(last.visited, last.i),
                           IF r.ok /\ r.client.acct_num # 0
                           THEN Append(last.shown, r.client) ELSE last.shown)
    /\ UNCHANGED <<file, pc>>

\* The loop is over: the file is closed and the function returns.
ScanClose ==
    /\ pc = "scan_loop"
    /\ ~(last.i < MAX_ACCOUNTS)
    /\ pc' = "returned"
    /\ UNCHANGED <<file, last>>

ScanNext ==
    \/ ScanOpen
    \/ ScanStep
    \/ ScanClose

ScanSpec == ScanInit /\ [][ScanNext]_vars

\* ------------------------------------------------------------------ C16

\* The scan has gone through its loop and returned.
Scanned == pc = "returned" /\ last.op \in ScanCalls /\ file.exists

\* It read positions 0, 1, ..., 99 in that order, once each.
ScanVisitsInOrder == last.visited = [i \in 1..MAX_ACCOUNTS |-> i - 1]

\* It printed every slot with a non-zero id and no other, in slot order.
ScanShowsOccupied ==
    LET kept == SelectSeq(file.slots, LAMBDA c : c.acct_num # 0)
    IN last.shown = kept

\* The ids it printed are strictly ascending.
ScanAscending ==
    \A i, j \in 1..Len(last.shown) :
        i < j => last.shown[i].acct_num < last.shown[j].acct_num

\* C16 (as claimed): a full scan reads slots 0..99 in order, once each, prints
\* every slot with a non-zero id and no empty one, and the ids it prints are
\* in strictly ascending order.
C16_ScanYieldsAscendingIds ==
    Scanned => ScanVisitsInOrder /\ ScanShowsOccupied /\ ScanAscending

\* ------------------------------------------------------------------ C17

\* The number of handles on accounts.dat open after the first n stdio calls
\* of a call.
OpenHandles(io, n) ==
    Cardinality({i \in 1..n : io[i] = "open"})
        - Cardinality({i \in 1..n : io[i] = "close"})

\* C17: when Create (account_exists included), Read, Update or Delete has
\* returned, on whatever path, every handle it opened on accounts.dat is
\* closed; during the call at most one handle is open, and every read and
\* write goes through an open handle.
C17_EveryOpenIsClosed ==
    pc = "returned" /\ last.op \in CrudCalls
    => /\ OpenHandles(last.io, Len(last.io)) = 0
       /\ \A n \in 1..Len(last.io) :
            /\ OpenHandles(last.io, n) \in {0, 1}
            /\ last.io[n] \in {"read", "write", "close"}
               => OpenHandles(last.io, n - 1) = 1

\* account_exists and then create_account itself have opened the file, and
\* the record is stored.
C17_Witness ==
    /\ Returned("create_account")
    /\ last.ret = 1
    /\ last.io = <<"open", "read", "close", "open", "write", "close">>

\* An Update cancelled at the menu, a Delete declined, a write that failed.
C17_WitnessCancelled ==
    /\ Returned("update_account") \/ Returned("delete_account")
    /\ last.ret = 0
    /\ last.io = <<"open", "read", "close">>
    /\ Len(last.prompts) > 1

C17_WitnessWriteFailed ==
    /\ Returned("update_account")
    /\ last.in.wfail
    /\ last.ret = 0
    /\ last.io = <<"open", "read", "write", "close">>

\* ------------------------------------------------------------------ two processes

\* A fourth specification runs update_account in two processes on the same
\* account of one accounts.dat, nothing in the code locking the file.  The
\* steps of a process are the points where it meets the file or the user:
\* the open and the read, the menu and the amount, fwrite, fclose.  Here pc
\* maps each process to its position and last maps it to update_account's
\* locals.  fwrite goes to the stream's buffer: the record reaches the file
\* at fwrite or, at the latest, at fclose.
Procs == {1, 2}

RaceBalances == {5000, 10000}
RaceAmounts == {Scan(TRUE, 5000), Scan(TRUE, 10000)}

Locals(acct_num, read, client, transaction, success, flushed, ret) ==
    [acct_num |-> acct_num, read |-> read, client |-> client,
     transaction |-> transaction, success |-> success, flushed |-> flushed,
     ret |-> ret]

RaceInit ==
    /\ \E acct \in TrailAccts, b \in RaceBalances :
         LET acct_num == get_account_number(acct)
         IN /\ file = write_client_to_file(
                          initialize_data_file_if_needed(NoFile, MAX_ACCOUNTS),
                          initialize_client(acct_num, <<"D","o","e">>,
                                            <<"J","a","n","e">>, b),
                          acct_num - 1, FALSE).file
            /\ last = [p \in Procs |->
                          Locals(acct_num, empty_client, empty_client, 0, 0,
                                 FALSE, 0)]
    /\ pc = [p \in Procs |-> "start"]

\* open_data_file("rb+") and read_client_from_file; the account not found.
RaceRead(p) ==
    /\ pc[p] = "start"
    /\ LET r == read_client_from_file(file, last[p].acct_num - 1)
       IN IF ~fopen_ok(file, "rb+") \/ ~r.ok \/ r.client.acct_num = 0
          THEN /\ pc' = [pc EXCEPT ![p] = "done"]
               /\ UNCHANGED last
          ELSE /\ pc' = [pc EXCEPT ![p] = "menu"]
               /\ last' = [last EXCEPT ![p].read = r.client, ![p].client = r.client]
    /\ UNCHANGED file

\* choice 1: the amount is typed and added to the balance that was read.
RaceTransaction(p) ==
    /\ pc[p] = "menu"
    /\ \E amt \in RaceAmounts :
         LET transaction == get_balance_input(amt)
         IN last' = [last EXCEPT
                        ![p].transaction = transaction,
                        ![p].client = update_balance(last[p].client, transaction)]
    /\ pc' = [pc EXCEPT ![p] = "write"]
    /\ UNCHANGED file

\* write_client_to_file: the record goes to the file now or stays in the
\* stream's buffer.
RaceWrite(p) ==
    /\ pc[p] = "write"
    /\ LET w == write_client_to_file(file, last[p].client, last[p].acct_num - 1,
                                     FALSE)
       IN \E through \in BOOLEAN :
            /\ file' = IF through THEN w.file ELSE file
            /\ last' = [last EXCEPT ![p].success = IF w.ok THEN 1 ELSE 0,
                                    ![p].flushed = through]
    /\ pc' = [pc EXCEPT ![p] = "close"]

\* close_data_file flushes the buffer; update_account reports and returns.
RaceClose(p) ==
    /\ pc[p] = "close"
    /\ file' = IF last[p].flushed THEN file
               ELSE write_client_to_file(file, last[p].client,
                                         last[p].acct_num - 1, FALSE).file
    /\ last' = [last EXCEPT ![p].flushed = TRUE, ![p].ret = last[p].success]
    /\ pc' = [pc EXCEPT ![p] = "done"]

RaceNext ==
    \E p \in Procs :
        \/ RaceRead(p)
        \/ RaceTransaction(p)
        \/ RaceWrite(p)
        \/ RaceClose(p)

RaceSpec == RaceInit /\ [][RaceNext]_vars

\* ------------------------------------------------------------------ C18

\* Both updates have returned success, having read the same balance.
BothUpdatedFromSameBalance ==
    /\ \A p \in Procs : pc[p] = "done" /\ last[p].ret = 1
    /\ last[1].read.balance = last[2].read.balance

StoredBalance == file.slots[last[1].acct_num].balance

\* C18: when two concurrent updates of the same account have both read the
\* balance b before either wrote and both have reported success, the balance
\* stored is b + d1 or b + d2, never b + d1 + d2: one update is lost.
C18_LostUpdate ==
    BothUpdatedFromSameBalance
    => /\ StoredBalance \in {last[1].read.balance + last[1].transaction,
                             last[2].read.balance + last[2].transaction}
       /\ StoredBalance # last[1].read.balance + last[1].transaction
                              + last[2].transaction

\* The interleaving is reachable: both read 10000, one adds 5000, the other
\* 10000, both succeed, and the file holds 20000 where 25000 is due.
C18_Witness ==
    /\ BothUpdatedFromSameBalance
    /\ last[1].read.balance = 10000
    /\ last[1].transaction = 5000
    /\ last[2].transaction = 10000
    /\ StoredBalance = 20000

\* ------------------------------------------------------------------ the validation functions alone

\* A fifth specification calls validate_account_number and validate_name on
\* arguments of bounded sets.  Here last is the call made last: its name, its
\* argument and the int it returned.  Account numbers are unsigned int: every
\* value up to MaxProbe and two large ones.  Names are
\* NULL, "Smith" and every string of up to MaxNameLen characters of
\* ProbeChars.
MaxProbe == 130
MaxNameLen == 3

UnsignedProbes == 0..MaxProbe \cup {65536, 2147483647}

ProbeChars == {"a", "Z", " ", "-", "'", "1", "2", "3", "_"}

ProbeStrings == UNION {[1..n -> ProbeChars] : n \in 0..MaxNameLen} \cup {Smith}

Pointer(null, chars) == [null |-> null, chars |-> chars]

NameProbes == {Pointer(TRUE, <<>>)} \cup {Pointer(FALSE, str) : str \in ProbeStrings}

Validation(op, arg, ret) == [op |-> op, arg |-> arg, ret |-> ret]

ValidateInit ==
    /\ file \in {NoFile, initialize_data_file_if_needed(NoFile, MAX_ACCOUNTS)}
    /\ pc = "idle"
    /\ last = Validation("none", 0, 0)

ValidateAccountNumber ==
    /\ pc = "idle"
    /\ \E n \in UnsignedProbes :
         last' = Validation("validate_account_number", n,
                            IF validate_account_number(n) THEN 1 ELSE 0)
    /\ pc' = "returned"
    /\ UNCHANGED file

ValidateName ==
    /\ pc = "idle"
    /\ \E p \in NameProbes :
         last' = Validation("validate_name", p,
                            IF validate_name_or_null(p) THEN 1 ELSE 0)
    /\ pc' = "returned"
    /\ UNCHANGED file

\* The caller takes the result.
ValidateReturn ==
    /\ pc = "returned"
    /\ pc' = "idle"
    /\ last' = Validation("none", 0, 0)
    /\ UNCHANGED file

ValidateNext ==
    \/ ValidateAccountNumber
    \/ ValidateName
    \/ ValidateReturn

ValidateSpec == ValidateInit /\ [][ValidateNext]_vars

\* ------------------------------------------------------------------ C19

\* C19: validate_account_number(n) returns 1 if 1 <= n <= 100 and 0 otherwise,
\* for every unsigned n: 0 for 0 and 101, 1 for 50.
C19_ValidAccountNumberIffInRange ==
    last.op = "validate_account_number"
    => /\ last.ret \in {0, 1}
       /\ last.ret = 1 <=> (1 <= last.arg /\ last.arg <= 100)
       /\ last.arg \in {0, 101} => last.ret = 0
       /\ last.arg = 50 => last.ret = 1

C19_Witness ==
    last.op = "validate_account_number" /\ last.arg = 100 /\ last.ret = 1

C19_WitnessRejected ==
    /\ last.op = "validate_account_number"
    /\ last.arg \in {0, 101, 2147483647}
    /\ last.ret = 0

\* ------------------------------------------------------------------ C20

\* C20: validate_name(s) returns 0 when s is NULL, is empty or holds a
\* character that is no letter, space, hyphen or apostrophe, and 1 otherwise:
\* 1 for "Smith", 0 for "" and "123".  The call leaves the file as it was.
C20_ValidNameIffWellFormed ==
    last.op = "validate_name"
    => /\ last.ret \in {0, 1}
       /\ last.ret = 0 <=>
            \/ last.arg.null
            \/ last.arg.chars = <<>>
            \/ \E i \in 1..Len(last.arg.chars) : last.arg.chars[i] \notin NameChars
       /\ ~last.arg.null /\ last.arg.chars = Smith => last.ret = 1
       /\ ~last.arg.null /\ last.arg.chars \in {<<>>, <<"1","2","3">>} => last.ret = 0
       /\ file \in {NoFile, initialize_data_file_if_needed(NoFile, MAX_ACCOUNTS)}

\* A name of a letter, a hyphen and an apostrophe is accepted.
C20_Witness ==
    /\ last.op = "validate_name"
    /\ ~last.arg.null
    /\ last.arg.chars = <<"Z", "-", "'">>
    /\ last.ret = 1

C20_WitnessRejected ==
    /\ last.op = "validate_name"
    /\ \/ last.arg.null
       \/ last.arg.chars \in {<<>>, <<"1","2","3">>, <<"a","_","a">>}
    /\ last.ret = 0

\* ------------------------------------------------------------------ C21

\* C21: account_exists(id) returns 1 exactly when id is in 1..100 and slot
\* id-1 of the file holds a non-zero id, and 0 otherwise (an id out of range,
\* a file that cannot be opened, a slot that cannot be read); it never changes
\* the file.  After test_account_management has written a record to slot 76,
\* account_exists(77) is 1, and account_exists of an id never written is 0.
C21_ExistsIffOccupied ==
    /\ Returned("account_exists")
       => /\ last.ret \in {0, 1}
          /\ last.ret = 1 <=> (IdInRange(GivenId) /\ Occupied(last.pre, GivenId))
          /\ file = last.pre
          /\ ~IdInRange(GivenId) => last.io = <<>>
    /\ last.op = "test_account_management" /\ last.pre.exists
       => /\ account_exists(file, 77).ret = 1
          /\ file.slots[77].acct_num = 77
          /\ Vacant(file, 88) => account_exists(file, 88).ret = 0

\* account_exists(77) answers 1 on the file test_account_management left.
C21_Witness ==
    /\ Returned("account_exists")
    /\ GivenId = 77
    /\ last.ret = 1
    /\ file.slots[77].last_name = Manager

\* It answers 0 for an id out of range, for a slot beyond the end of a short
\* file and for an empty slot.
C21_WitnessOutOfRange ==
    Returned("account_exists") /\ GivenId = 101 /\ last.ret = 0 /\ file.exists

C21_WitnessUnreadable ==
    /\ Returned("account_exists")
    /\ GivenId = 88
    /\ file.exists /\ ~HasSlot(file, 88)
    /\ last.ret = 0

C21_WitnessVacant ==
    Returned("account_exists") /\ Vacant(file, 88) /\ GivenId = 88 /\ last.ret = 0

\* ------------------------------------------------------------------ the slot store on an open file

\* A sixth specification calls write_client_to_file and read_client_from_file
\* (of either version) on one open stream, as test_file_writing,
\* test_file_reading and test_file_positioning do.  Here last is the call
\* made last (its arguments, what it returned, the stdio calls it issued, the
\* caller's struct before and after it, the stream's position before and
\* after it, in records) together with written: for each position, the
\* record last written there through this stream, if any.
StorePositions == {-1, 0, 5, 15, 99, 100}
StoreRecords ==
    {client_data(11, First, Client, 10000), client_data(22, Second, Client, 20000)}
NullArgs == {"none", "file_ptr", "client"}

NotWritten == [written |-> FALSE, client |-> empty_client]
Written(client) == [written |-> TRUE, client |-> client]

StoreCall(op, version, null, position, before, ret, out, io, pos_before, pos, wfail, written) ==
    [op |-> op, version |-> version, null |-> null, position |-> position,
     before |-> before, ret |-> ret, out |-> out, io |-> io,
     pos_before |-> pos_before, pos |-> pos, wfail |-> wfail, pre |-> file,
     written |-> written]

\* No call is running: the stream's position and the records written stay.
StoreIdle(pos, written) ==
    StoreCall("none", 0, "none", 0, empty_client, 0, empty_client, <<>>, pos, pos,
              FALSE, written)

\* write_client_to_file on the stream: [ret, file, pos, io].  A call rejected
\* at the first test issues no fseek and no fwrite.
write_client_to_file_call(f, pos, null, client, position, wfail) ==
    IF null # "none" THEN [ret |-> 0, file |-> f, pos |-> pos, io |-> <<>>]
    ELSE LET w == write_client_to_file(f, client, position, wfail)
         IN IF position < 0 \/ position >= MAX_ACCOUNTS
            THEN [ret |-> IF w.ok THEN 1 ELSE 0, file |-> w.file, pos |-> pos,
                  io |-> <<>>]
            ELSE [ret |-> IF w.ok THEN 1 ELSE 0, file |-> w.file,
                  pos |-> IF w.ok THEN position + 1 ELSE position,
                  io |-> <<"fseek", "fwrite">>]

\* read_client_from_file on the stream: [ret, out, pos, io], out being the
\* caller's struct after the call.  Version 2 zeroes it on a short read;
\* otherwise a failed call leaves it as it was.
read_client_from_file_call(version, f, pos, null, before, position) ==
    IF null # "none" THEN [ret |-> 0, out |-> before, pos |-> pos, io |-> <<>>]
    ELSE LET r == IF version = 2 THEN v2_read_client_from_file(f, position)
                  ELSE read_client_from_file(f, position)
         IN IF position < 0 \/ position >= MAX_ACCOUNTS
            THEN [ret |-> IF r.ok THEN 1 ELSE 0, out |-> before, pos |-> pos,
                  io |-> <<>>]
            ELSE [ret |-> IF r.ok THEN 1 ELSE 0,
                  out |-> IF r.client = Uninitialised THEN before ELSE r.client,
                  pos |-> IF r.ok THEN position + 1 ELSE position,
                  io |-> <<"fseek", "fread">>]

\* The stream is open on a fresh store ("rb+"), on a file just created or
\* truncated ("wb+", test_file_writing), or on the file test_file_writing left.
StoreInit ==
    /\ file \in {initialize_data_file(NoFile, MAX_ACCOUNTS),
                 fopen_file(NoFile, "wb+"),
                 v2_test_file_writing(NoFile).file}
    /\ pc = "idle"
    /\ last = StoreIdle(0, [q \in StorePositions |-> NotWritten])

StoreWrite ==
    /\ pc = "idle"
    /\ \E position \in StorePositions, client \in StoreRecords, null \in NullArgs :
         \E wfail \in IF null = "none" /\ position \in 0..(MAX_ACCOUNTS - 1)
                      THEN BOOLEAN ELSE {FALSE} :
            LET w == write_client_to_file_call(file, last.pos, null, client,
                                               position, wfail)
            IN /\ file' = w.file
               /\ last' = StoreCall("write_client_to_file", 0, null, position,
                              client, w.ret, client, w.io, last.pos, w.pos, wfail,
                              IF w.ret = 1
                              THEN [last.written EXCEPT ![position] = Written(client)]
                              ELSE last.written)
    /\ pc' = "returned"

StoreRead ==
    /\ pc = "idle"
    /\ \E version \in {2, 3}, position \in StorePositions, null \in NullArgs,
          before \in {Uninitialised, client_data(88, ReadTest, User, 55555)} :
         LET r == read_client_from_file_call(version, file, last.pos, null, before,
                                             position)
         IN last' = StoreCall("read_client_from_file", version, null, position,
                              before, r.ret, r.out, r.io, last.pos, r.pos, FALSE,
                              last.written)
    /\ pc' = "returned"
    /\ UNCHANGED file

\* The caller takes the result; the stream stays open.
StoreReturn ==
    /\ pc = "returned"
    /\ pc' = "idle"
    /\ last' = StoreIdle(last.pos, last.written)
    /\ UNCHANGED file

StoreNext ==
    \/ StoreWrite
    \/ StoreRead
    \/ StoreReturn

StoreSpec == StoreInit /\ [][StoreNext]_vars

StoreReturned(op) == pc = "returned" /\ last.op = op

InRange(position) == position \in 0..99

\* ------------------------------------------------------------------ C22

\* C22: a call of write_client_to_file or read_client_from_file with a
\* position outside 0..99, a NULL stream or a NULL record returns 0 without
\* issuing any fseek, fread or fwrite: the file and the position of the
\* stream are as before the call.
C22_RejectedCallTouchesNothing ==
    pc = "returned"
    /\ last.op \in {"write_client_to_file", "read_client_from_file"}
    /\ (~InRange(last.position) \/ last.null # "none")
    => /\ last.ret = 0
       /\ last.io = <<>>
       /\ file = last.pre
       /\ last.pos = last.pos_before

\* A write at position 100 is rejected on a stream that has written records
\* and stands behind one of them.
C22_Witness ==
    /\ StoreReturned("write_client_to_file")
    /\ last.position = 100
    /\ last.null = "none"
    /\ last.ret = 0
    /\ last.pos_before = 16
    /\ last.written[15].written

C22_WitnessRead ==
    /\ StoreReturned("read_client_from_file")
    /\ last.position = -1
    /\ last.null = "none"
    /\ last.ret = 0
    /\ Len(file.slots) = MAX_ACCOUNTS

C22_WitnessNull ==
    /\ pc = "returned"
    /\ last.null = "file_ptr"
    /\ InRange(last.position)
    /\ last.ret = 0

\* ------------------------------------------------------------------ C23

\* C23 (as claimed): when read_client_from_file, of either version, fails on
\* a position in 0..99 (the file ends before that slot), it returns 0 and
\* the caller's struct holds the empty record: id 0, empty names, balance 0.
C23_ShortReadHandsBackSentinel ==
    StoreReturned("read_client_from_file")
    /\ last.null = "none" /\ InRange(last.position)
    /\ ~(last.position < Len(last.pre.slots))
    => last.ret = 0 /\ last.out = empty_client

\* ------------------------------------------------------------------ C24

\* C24: a read of a position in 0..99 at which a record r was successfully
\* written through the same stream returns 1 and hands back r: the same id,
\* last name, first name and balance.
C24_ReadReturnsWhatWasWritten ==
    StoreReturned("read_client_from_file")
    /\ last.null = "none" /\ InRange(last.position)
    /\ last.written[last.position].written
    => /\ last.ret = 1
       /\ last.out.acct_num = last.written[last.position].client.acct_num
       /\ last.out.last_name = last.written[last.position].client.last_name
       /\ last.out.first_name = last.written[last.position].client.first_name
       /\ last.out.balance = last.written[last.position].client.balance

\* The record written at position 15 beyond the end of a short file is read
\* back over a struct that held another record.
C24_Witness ==
    /\ StoreReturned("read_client_from_file")
    /\ last.position = 15
    /\ last.written[15].written
    /\ last.before.acct_num = 88
    /\ last.out = client_data(22, Second, Client, 20000)
    /\ Len(file.slots) = 16

\* ------------------------------------------------------------------ C25

\* The record at position q of file f, a position past the end of the file
\* holding nothing.
SlotAt(f, q) == IF q < Len(f.slots) THEN f.slots[q + 1] ELSE empty_client

\* C25: a write to position p changes slot p alone, and a read changes no
\* slot; so every record written through the stream stays at its position,
\* whatever was written elsewhere and in whatever order, and reading the
\* positions in any order hands back each one's own record.
C25_WriteChangesOneSlot ==
    /\ StoreReturned("write_client_to_file")
       => \A q \in 0..(MAX_ACCOUNTS - 1) :
            q # last.position => SlotAt(file, q) = SlotAt(last.pre, q)
    /\ StoreReturned("read_client_from_file") => file = last.pre
    /\ \A q \in StorePositions :
         last.written[q].written
         => /\ v2_read_client_from_file(file, q) = [ok |-> TRUE, client |-> last.written[q].client]
            /\ read_client_from_file(file, q) = [ok |-> TRUE, client |-> last.written[q].client]

\* Positions 5 and 15 hold different records, and position 5 is read after
\* position 15.
C25_Witness ==
    /\ StoreReturned("read_client_from_file")
    /\ last.position = 5
    /\ last.pos_before = 16
    /\ last.written[5].written /\ last.written[15].written
    /\ last.written[5].client # last.written[15].client
    /\ last.out = last.written[5].client

\* ------------------------------------------------------------------ C26

\* The line that tells the user the file now holds MAX_ACCOUNTS empty records.
ReportsInitialized ==
    \E i \in 1..Len(last.printed) :
        last.printed[i] \in {"Data file initialized with 100 empty records",
                             "Data file initialized with 100 empty slots"}

\* C26 (as claimed): an initialisation in which the write of one of the
\* MAX_ACCOUNTS empty records failed does not report the file as initialised
\* with 100 empty records.
C26_FailedInitializeIsNotReportedDone ==
    pc = "returned"
    /\ last.op \in {"initialize_data_file", "initialize_data_file_if_needed"}
    /\ last.in.wfail
    => ~ReportsInitialized

\* ------------------------------------------------------------------ C27

InitializeCalls == {"initialize_data_file", "initialize_data_file_if_needed"}

\* C27 (as claimed): no function other than the initialisation creates
\* accounts.dat or truncates it, and with accounts.dat missing every
\* create_account, read_account, update_account, delete_account and
\* account_exists that gets as far as the file fails at fopen and leaves the
\* file missing.
C27_OpenNeverCreatesOrTruncates ==
    /\ last.op \notin InitializeCalls \cup {"none"}
       => /\ file.exists = last.pre.exists
          /\ Len(file.slots) >= Len(last.pre.slots)
    /\ pc = "returned" /\ last.op \in CrudCalls \cup {"account_exists"}
       /\ ~last.pre.exists /\ IdInRange(GivenId)
       => /\ last.ret = 0
          /\ "open_failed" \in Range(last.io)
          /\ ~file.exists

\* ------------------------------------------------------------------ C28

\* The answer typed at the confirmation prompt is a yes.
Confirmed == last.in.confirm.ok /\ last.in.confirm.val \in {"y", "Y"}

\* C28: delete_account writes only after the answer 'y' or 'Y' to its
\* confirmation prompt, and what it writes is the empty record; when the
\* prompt is answered by anything else, or by nothing readable, the call
\* returns 0 with the file closed and unchanged.
C28_DeleteRequiresConfirmation ==
    Returned("delete_account")
    => /\ Wrote => Confirmed /\ "confirm" \in Range(last.prompts)
       /\ file # last.pre => Confirmed /\ file.slots[GivenId] = empty_client
       /\ "confirm" \in Range(last.prompts) /\ ~Confirmed
          => /\ last.ret = 0
             /\ file = last.pre
             /\ OpenHandles(last.io, Len(last.io)) = 0
             /\ ~Wrote

\* An occupied account's deletion is refused at the prompt.
C28_Witness ==
    /\ Returned("delete_account")
    /\ Occupied(last.pre, GivenId)
    /\ last.in.confirm.ok /\ last.in.confirm.val \notin {"y", "Y"}
    /\ last.ret = 0
    /\ Occupied(file, GivenId)

C28_WitnessUnreadable ==
    /\ Returned("delete_account")
    /\ Occupied(last.pre, GivenId)
    /\ ~last.in.confirm.ok
    /\ last.ret = 0

C28_WitnessConfirmed ==
    /\ Returned("delete_account")
    /\ Occupied(last.pre, GivenId)
    /\ last.in.confirm.ok /\ last.in.confirm.val = "Y"
    /\ last.ret = 1
    /\ Vacant(file, GivenId)

\* ------------------------------------------------------------------ C29

\* C29: whatever it returns, a create_account, read_account, update_account,
\* delete_account or account_exists call for account k leaves the record of
\* every slot other than k - 1 as it was (a slot past the end of the file
\* holding nothing before as after).
C29_OtherSlotsUnchanged ==
    pc = "returned" /\ last.op \in CrudCalls \cup {"account_exists"}
    => /\ file.exists = last.pre.exists
       /\ \A k \in 1..MAX_ACCOUNTS :
            k # GivenId => SlotAt(file, k - 1) = SlotAt(last.pre, k - 1)

\* A call changed slot k - 1 of a file with a record in another slot.
C29_Witness ==
    /\ pc = "returned" /\ last.op \in CrudCalls
    /\ file # last.pre
    /\ \E k \in 1..MAX_ACCOUNTS : k # GivenId /\ Occupied(last.pre, k)

C29_WitnessFailed ==
    /\ pc = "returned" /\ last.op \in CrudCalls
    /\ last.ret = 0 /\ Wrote
    /\ \E k \in 1..MAX_ACCOUNTS : k # GivenId /\ Occupied(last.pre, k)

\* ------------------------------------------------------------------ C30

WriteCalls == {"create_account", "update_account", "delete_account"}

\* The number of fwrite calls among the first n file operations of a call.
Writes(io, n) == Cardinality({i \in 1..n : io[i] = "write"})

\* C30: a create_account, update_account or delete_account call writes at
\* most once, one whole record at slot id - 1; when that write fails the call
\* returns 0, having written once and changed nothing.
C30_OneWriteNoRetry ==
    pc = "returned" /\ last.op \in WriteCalls
    => /\ Writes(last.io, Len(last.io)) <= 1
       /\ Wrote => /\ IdInRange(GivenId)
                   /\ \A k \in 1..MAX_ACCOUNTS :
                        k # GivenId => SlotAt(file, k - 1) = SlotAt(last.pre, k - 1)
       /\ last.in.wfail
          => /\ Writes(last.io, Len(last.io)) = 1
             /\ last.ret = 0
             /\ file = last.pre

\* The write-back of an update fails.
C30_Witness ==
    /\ Returned("update_account")
    /\ last.in.wfail
    /\ last.ret = 0
    /\ Occupied(file, GivenId)

C30_WitnessCreate ==
    /\ Returned("create_account")
    /\ last.in.wfail
    /\ last.ret = 0

C30_WitnessDelete ==
    /\ Returned("delete_account")
    /\ last.in.wfail
    /\ last.ret = 0
    /\ Occupied(file, GivenId)

\* ------------------------------------------------------------------ processes sharing accounts.dat

\* SessionSpec: two processes run the program on the same accounts.dat, each
\* making one create_account, update_account or delete_account call for the
\* same account. Nothing in the code locks the file, so the calls interleave
\* between their file operations: the read of a call (account_exists for
\* create_account, which opens and closes the file on its own), its write
\* and its fclose are steps of their own. Here pc and last are functions of
\* the process: last[p] holds the locals of p's call.
SessionProcs == {1, 2}
SessionOps == {"create_account", "update_account", "delete_account"}
SessionAcct == 77
SessionAmount == 2500

\* The record a process types into create_account.
SessionTyped(p) ==
    IF p = 1 THEN initialize_client(SessionAcct, Smith, John, 5000)
    ELSE initialize_client(SessionAcct, Johnson, Mary, 10000)

\* The record in the account's slot before either call: none, or an account.
SessionStored == {empty_client, initialize_client(SessionAcct, Williams, Bob, 7500)}

SessionLocals(op, client, success, flushed, ret) ==
    [op |-> op, client |-> client, success |-> success, flushed |-> flushed,
     ret |-> ret]

SessionInit ==
    /\ \E stored \in SessionStored :
         file = write_client_to_file(
                    initialize_data_file_if_needed(NoFile, MAX_ACCOUNTS),
                    stored, SessionAcct - 1, FALSE).file
    /\ \E ops \in [SessionProcs -> SessionOps] :
         last = [p \in SessionProcs |->
                    SessionLocals(ops[p], empty_client, 0, FALSE, 0)]
    /\ pc = [p \in SessionProcs |-> "start"]

\* create_account up to its write: account_exists, then the names and the
\* balance are typed and the record is built.
SessionCreateCheck(p) ==
    /\ pc[p] = "start" /\ last[p].op = "create_account"
    /\ IF account_exists(file, SessionAcct).ret = 1
       THEN /\ pc' = [pc EXCEPT ![p] = "done"]
            /\ UNCHANGED last
       ELSE /\ pc' = [pc EXCEPT ![p] = "write"]
            /\ last' = [last EXCEPT ![p].client = SessionTyped(p)]
    /\ UNCHANGED file

\* update_account up to its write: open_data_file("rb+"), the read of the
\* record, and the transaction added to the balance that was read.
SessionUpdateRead(p) ==
    /\ pc[p] = "start" /\ last[p].op = "update_account"
    /\ LET r == read_client_from_file(file, SessionAcct - 1)
       IN IF ~fopen_ok(file, "rb+") \/ ~r.ok \/ r.client.acct_num = 0
          THEN /\ pc' = [pc EXCEPT ![p] = "done"]
               /\ UNCHANGED last
          ELSE /\ pc' = [pc EXCEPT ![p] = "write"]
               /\ last' = [last EXCEPT
                              ![p].client = update_balance(r.client, SessionAmount)]
    /\ UNCHANGED file

\* delete_account up to its write: the read of the record and the
\* confirmation, answered with y or not.
SessionDeleteRead(p) ==
    /\ pc[p] = "start" /\ last[p].op = "delete_account"
    /\ LET r == read_client_from_file(file, SessionAcct - 1)
       IN IF ~fopen_ok(file, "rb+") \/ ~r.ok \/ r.client.acct_num = 0
          THEN /\ pc' = [pc EXCEPT ![p] = "done"]
               /\ UNCHANGED last
          ELSE \E confirm \in {"y", "n"} :
                 IF tolower(confirm) # "y"
                 THEN /\ pc' = [pc EXCEPT ![p] = "done"]
                      /\ UNCHANGED last
                 ELSE /\ pc' = [pc EXCEPT ![p] = "write"]
                      /\ last' = [last EXCEPT ![p].client = empty_client]
    /\ UNCHANGED file

\* write_client_to_file: the record goes to the file now or stays in the
\* stream's buffer.
SessionWrite(p) ==
    /\ pc[p] = "write"
    /\ LET w == write_client_to_file(file, last[p].client, SessionAcct - 1, FALSE)
       IN \E through \in BOOLEAN :
            /\ file' = IF through THEN w.file ELSE file
            /\ last' = [last EXCEPT ![p].success = IF w.ok THEN 1 ELSE 0,
                                    ![p].flushed = through]
    /\ pc' = [pc EXCEPT ![p] = "close"]

\* close_data_file flushes the buffer; the call reports and returns.
SessionClose(p) ==
    /\ pc[p] = "close"
    /\ file' = IF last[p].flushed THEN file
               ELSE write_client_to_file(file, last[p].client,
                                         SessionAcct - 1, FALSE).file
    /\ last' = [last EXCEPT ![p].flushed = TRUE, ![p].ret = last[p].success]
    /\ pc' = [pc EXCEPT ![p] = "done"]

SessionNext ==
    \E p \in SessionProcs :
        \/ SessionCreateCheck(p)
        \/ SessionUpdateRead(p)
        \/ SessionDeleteRead(p)
        \/ SessionWrite(p)
        \/ SessionClose(p)

SessionSpec == SessionInit /\ [][SessionNext]_vars

\* Process p's call has returned 1.
Succeeded(p, op) == last[p].op = op /\ pc[p] = "done" /\ last[p].ret = 1

\* ------------------------------------------------------------------ C31

\* C31 (as claimed): once a delete_account of the account has returned 1,
\* and no create_account is running or has run beside it, the account's slot
\* holds no record, also when an update_account that read the record before
\* the delete writes it back afterwards.
C31_DeletedStaysEmpty ==
    (\E p \in SessionProcs : Succeeded(p, "delete_account"))
    /\ (\A q \in SessionProcs : last[q].op # "create_account")
    => file.slots[SessionAcct].acct_num = 0

\* ------------------------------------------------------------------ C32

\* C32 (as claimed): of two create_account calls for the same vacant account
\* running side by side at most one returns 1, and when both have returned
\* the slot holds the record of the one that did.
C32_AtMostOneCreateSucceeds ==
    (\A p \in SessionProcs : last[p].op = "create_account")
    => /\ Cardinality({p \in SessionProcs : Succeeded(p, "create_account")}) <= 1
       /\ \A p \in SessionProcs :
            Succeeded(p, "create_account") /\ (\A q \in SessionProcs : pc[q] = "done")
            => file.slots[SessionAcct] = SessionTyped(p)

\* ------------------------------------------------------------------ C33

\* The accounts stored in file f.
StoredAccounts(f) == {k \in 1..MAX_ACCOUNTS : Occupied(f, k)}

C33_WitnessCreated ==
    /\ Returned("initialize_data_file_if_needed")
    /\ ~last.pre.exists
    /\ FreshStore(file)

C33_WitnessDiscarded ==
    /\ Returned("initialize_data_file")
    /\ StoredAccounts(last.pre) # {}
    /\ FreshStore(file)

\* ------------------------------------------------------------------ counting the records

\* CountSpec: the three functions of version2.c that count the records of
\* accounts.dat, on files of 100 records, of fewer and of none, with the
\* sample records of demonstrate_file_concepts written to them. Here last is
\* the function called and the total it reports.
CountSamples ==
    {client_data(1, Smith, John, 150075), client_data(5, Johnson, Mary, -25050),
     client_data(10, Williams, Bob, 320000), client_data(25, Davis, Alice, 100000)}

CountFiles ==
    {initialize_data_file(NoFile, MAX_ACCOUNTS), initialize_data_file(NoFile, 10),
     fopen_file(NoFile, "wb+"), v2_test_file_writing(NoFile).file}

\* The stream's position, in records, before the i-th fread of a loop that
\* started at the beginning of the file: a read at the end of the file fails
\* and leaves the position.
fread_position(f, i) == IF i < Len(f.slots) THEN i ELSE Len(f.slots)

\* A variant that counts every record it reads.
count_records_every_read(f) ==
    Cardinality({i \in 0..(MAX_ACCOUNTS - 1) :
                    fread_position(f, i) < Len(f.slots)})

\* count_records(file_ptr) for an open stream: rewind, then MAX_ACCOUNTS
\* times fread at the stream's position.
count_records(f) ==
    Cardinality({i \in 0..(MAX_ACCOUNTS - 1) :
                    /\ fread_position(f, i) < Len(f.slots)
                    /\ f.slots[fread_position(f, i) + 1].acct_num # 0})

\* records_found of display_file_contents and record_count of
\* create_text_report: read_client_from_file at each of the MAX_ACCOUNTS
\* positions.
records_found(f) ==
    Cardinality({i \in 0..(MAX_ACCOUNTS - 1) :
                    /\ v2_read_client_from_file(f, i).ok
                    /\ v2_read_client_from_file(f, i).client.acct_num # 0})

record_count(f) ==
    Cardinality({i \in 0..(MAX_ACCOUNTS - 1) :
                    v2_read_client_from_file(f, i).ok
                    /\ v2_read_client_from_file(f, i).client.acct_num # 0})

Counted(op, total) == [op |-> op, total |-> total]

CountInit ==
    /\ file \in CountFiles
    /\ pc = "idle"
    /\ last = Counted("none", 0)

\* demonstrate_file_concepts writes a sample record at its account's slot.
CountWriteSample ==
    /\ pc = "idle"
    /\ \E client \in CountSamples :
         file' = write_client_to_file(file, client, client.acct_num - 1, FALSE).file
    /\ UNCHANGED <<pc, last>>

CountRecords ==
    /\ pc = "idle"
    /\ fopen_ok(file, "rb+")
    /\ last' = Counted("count_records", count_records(file))
    /\ pc' = "returned"
    /\ UNCHANGED file

DisplayFileContents ==
    /\ pc = "idle"
    /\ fopen_ok(file, "rb")
    /\ last' = Counted("display_file_contents", records_found(file))
    /\ pc' = "returned"
    /\ UNCHANGED file

CreateTextReport ==
    /\ pc = "idle"
    /\ fopen_ok(file, "rb")
    /\ last' = Counted("create_text_report", record_count(file))
    /\ pc' = "returned"
    /\ UNCHANGED file

CountReturn ==
    /\ pc = "returned"
    /\ pc' = "idle"
    /\ last' = Counted("none", 0)
    /\ UNCHANGED file

CountNext ==
    \/ CountWriteSample
    \/ CountRecords
    \/ DisplayFileContents
    \/ CreateTextReport
    \/ CountReturn

CountSpec == CountInit /\ [][CountNext]_vars

\* ------------------------------------------------------------------ C34

\* C34: on any accounts.dat, of 100 records or fewer, count_records, the
\* 'Total records found' of display_file_contents and the 'Total Accounts'
\* of create_text_report are all the number of slots among 0..99 that hold a
\* non-zero id, a number from 0 to 100.
C34_CountsAgree ==
    /\ pc = "returned"
       => /\ last.total = Cardinality(StoredAccounts(file))
          /\ last.total \in 0..MAX_ACCOUNTS
    /\ /\ count_records(file) = records_found(file)
       /\ records_found(file) = record_count(file)

\* count_records on a file of eleven records, two of them accounts.
C34_Witness ==
    /\ pc = "returned" /\ last.op = "count_records"
    /\ Len(file.slots) = 11
    /\ last.total = 2

C34_WitnessDisplay ==
    /\ pc = "returned" /\ last.op = "display_file_contents"
    /\ Len(file.slots) < MAX_ACCOUNTS
    /\ last.total > 0

C34_WitnessReport ==
    /\ pc = "returned" /\ last.op = "create_text_report"
    /\ Len(file.slots) = MAX_ACCOUNTS
    /\ last.total = 4

\* ------------------------------------------------------------------ initialize_client

\* ClientSpec: initialize_client called with account numbers, balances and
\* name pointers: NULL, the empty string, the names of
\* test_structure_initialization, and names as long as the array allows, one
\* character longer and longer still.
Alphabet ==
    <<"A","b","c","d","e","f","g","h","i","j","k","l","m","n","o","p","q","r","s","t">>

ClientAccts == {0, 50, 2147483647}
ClientBalances == {-25050, 0, 10050}

ClientLasts ==
    {Pointer(TRUE, <<>>), Pointer(FALSE, <<>>), Pointer(FALSE, TestLast)}
    \cup {Pointer(FALSE, SubSeq(Alphabet, 1, n)) :
            n \in {LAST_NAME_SIZE - 1, LAST_NAME_SIZE, Len(Alphabet)}}

ClientFirsts ==
    {Pointer(TRUE, <<>>), Pointer(FALSE, <<>>), Pointer(FALSE, TestFirst)}
    \cup {Pointer(FALSE, SubSeq(Alphabet, 1, n)) :
            n \in {FIRST_NAME_SIZE, LAST_NAME_SIZE}}

\* initialize_client with the pointers it is handed: a NULL name gives the
\* empty string.
initialize_client_pointers(acct_num, last_name, first_name, balance) ==
    LET lname == IF last_name.null THEN <<>>
                 ELSE initialize_client(acct_num, last_name.chars, <<>>, balance).last_name
        fname == IF first_name.null THEN <<>>
                 ELSE initialize_client(acct_num, <<>>, first_name.chars, balance).first_name
    IN client_data(initialize_client(acct_num, <<>>, <<>>, balance).acct_num,
                   lname, fname,
                   initialize_client(acct_num, <<>>, <<>>, balance).balance)

Initialized(op, acct_num, last_name, first_name, balance, client) ==
    [op |-> op, acct_num |-> acct_num, last_name |-> last_name,
     first_name |-> first_name, balance |-> balance, client |-> client]

ClientInit ==
    /\ file = NoFile
    /\ pc = "idle"
    /\ last = Initialized("none", 0, Pointer(TRUE, <<>>), Pointer(TRUE, <<>>), 0,
                          Uninitialised)

InitializeClient ==
    /\ pc = "idle"
    /\ \E acct_num \in ClientAccts, balance \in ClientBalances,
          last_name \in ClientLasts, first_name \in ClientFirsts :
         last' = Initialized("initialize_client", acct_num, last_name, first_name,
                             balance,
                             initialize_client_pointers(acct_num, last_name,
                                                        first_name, balance))
    /\ pc' = "returned"
    /\ UNCHANGED file

ClientReturn ==
    /\ pc = "returned"
    /\ pc' = "idle"
    /\ last' = Initialized("none", 0, Pointer(TRUE, <<>>), Pointer(TRUE, <<>>), 0,
                           Uninitialised)
    /\ UNCHANGED file

ClientNext ==
    \/ InitializeClient
    \/ ClientReturn

ClientSpec == ClientInit /\ [][ClientNext]_vars

\* ------------------------------------------------------------------ C35

\* The first n characters of the string p points to; nothing for NULL.
Truncated(p, n) ==
    IF p.null THEN <<>>
    ELSE IF Len(p.chars) <= n THEN p.chars
    ELSE [i \in 1..n |-> p.chars[i]]

\* C35: initialize_client stores the id and the balance it is given, and as
\* each name the first 14 (last name) or 9 (first name) characters of the
\* input, so that the terminator always fits in the array; NULL gives the
\* empty name and a name within the bound is stored as it is.
C35_InitializeClientTruncates ==
    pc = "returned" /\ last.op = "initialize_client"
    => /\ last.client.acct_num = last.acct_num
       /\ last.client.balance = last.balance
       /\ Len(last.client.last_name) <= LAST_NAME_SIZE - 1
       /\ Len(last.client.first_name) <= FIRST_NAME_SIZE - 1
       /\ last.client.last_name = Truncated(last.last_name, 14)
       /\ last.client.first_name = Truncated(last.first_name, 9)
       /\ ~last.last_name.null /\ Len(last.last_name.chars) <= 14
          => last.client.last_name = last.last_name.chars
       /\ ~last.first_name.null /\ Len(last.first_name.chars) <= 9
          => last.client.first_name = last.first_name.chars

\* A last name of 15 characters and a first name of 10 are cut to 14 and 9.
C35_Witness ==
    /\ pc = "returned" /\ last.op = "initialize_client"
    /\ ~last.last_name.null /\ Len(last.last_name.chars) = 15
    /\ ~last.first_name.null /\ Len(last.first_name.chars) = 10
    /\ Len(last.client.last_name) = 14
    /\ Len(last.client.first_name) = 9

\* The call of test_structure_initialization.
C35_WitnessTest ==
    /\ pc = "returned" /\ last.op = "initialize_client"
    /\ last.client = client_data(50, TestLast, TestFirst, 10050)

C35_WitnessNull ==
    /\ pc = "returned" /\ last.op = "initialize_client"
    /\ last.last_name.null /\ last.first_name.null
    /\ last.client.last_name = <<>> /\ last.client.first_name = <<>>

====
